---- MODULE Spec2Model ----
(***************************************************************************)
(* A model of python_osc/tcp_to_osc.py: the bridge between the acquisition *)
(* server's binary TCP protocol and OSC.                                   *)
(*                                                                         *)
(* Spec        the control plane: main() (connect, handshake, start-up     *)
(*             commands, interrupt) and the inbound OSC server thread with *)
(*             its three handlers and the resend sequence.                 *)
(* SpecStream  the data plane: the two stream workers, fed by their peers   *)
(*             in reads of any size, once start-up is over.                *)
(*                                                                         *)
(* Python lists are sequences; At(s, i) is s[i] with Python's 0-based      *)
(* index.  Bytes are integers 0..255.  Thresholds are Python floats and    *)
(* are held in tenths (5.0 is 50).                                         *)
(***************************************************************************)
EXTENDS Integers, Sequences, FiniteSets, TLC

(******************************* bounds ************************************)
\* OSC control messages the inbound server handles in one run.
MaxUpdates == 2

(************************* program constants *******************************)
VERSION == 1
EMG_PORTS == <<5123, 5124, 5125, 5126>>
DATA_MULTIPLIER == 10000
INIT_LEFT_CHANNEL == 13
INIT_LEFT_THRESHOLD == 5
INIT_RIGHT_CHANNEL == 14
INIT_RIGHT_THRESHOLD == 5
ANALYZER_DEVICE == "DelsysEmgDataCollector"
ANALYZER_REFERENCE == "DelsysEmgDataCollector"
\* class Command (the members the program sends)
HANDSHAKE == 0
CONNECT_DELSYS_EMG == 11
ADD_ANALYZER == 50
REMOVE_ANALYZER == 51

At(s, i) == s[i + 1]
Last(s) == s[Len(s)]
Tenths(n) == 10 * n

(***************************** protocol codec ******************************)
RECURSIVE Pack(_, _)
\* struct.pack('<I') / ('<Q'): n as k little-endian bytes
Pack(n, k) == IF k = 0 THEN <<>> ELSE <<n % 256>> \o Pack(n \div 256, k - 1)

RECURSIVE Unpack(_)
\* struct.unpack of one little-endian unsigned field
Unpack(bytes) == IF bytes = <<>> THEN 0 ELSE Head(bytes) + 256 * Unpack(Tail(bytes))

to_packet(command_int) == Pack(VERSION, 4) \o Pack(command_int, 4)

\* Mutant: the status is read one byte early.
interpret_response_StatusShifted(response) ==
    IF Len(response) = 0 \/ Len(response) # 16
    THEN [error |-> "Invalid response length"]
    ELSE LET protocol_version == Unpack(SubSeq(response, 1, 4))
             timestamp == Unpack(SubSeq(response, 5, 12))
             status == Unpack(SubSeq(response, 12, 15))
         IN  IF protocol_version # VERSION
             THEN [error |-> "Invalid protocol version"]
             ELSE [protocol_version |-> protocol_version,
                   timestamp |-> timestamp,
                   status |-> status]

interpret_response(response) ==
    IF Len(response) = 0 \/ Len(response) # 16
    THEN [error |-> "Invalid response length"]
    ELSE LET protocol_version == Unpack(SubSeq(response, 1, 4))
             timestamp == Unpack(SubSeq(response, 5, 12))
             status == Unpack(SubSeq(response, 13, 16))
         IN  IF protocol_version # VERSION
             THEN [error |-> "Invalid protocol version"]
             ELSE [protocol_version |-> protocol_version,
                   timestamp |-> timestamp,
                   status |-> status]

\* A 16-byte response as the server lays it out.
Response(version, timestamp, status) ==
    Pack(version, 4) \o Pack(timestamp, 8) \o Pack(status, 4)

\* What one recv(16) on the command socket may return: well-formed answers
\* (OK, NOK, other status words), a foreign protocol version, a short read
\* and the empty read of a closed peer.
ServerResponses ==
    { Response(1, 300, 1), Response(1, 300, 0), Response(1, 300, 257),
      Response(2, 300, 1), Response(257, 300, 1),
      SubSeq(Response(1, 300, 1), 1, 15), <<>> }

(************************** analyzer descriptors ***************************)
Condition(channel, comparator, value) ==
    [type |-> "threshold", device |-> ANALYZER_DEVICE, channel |-> channel,
     comparator |-> comparator, value |-> value]

\* The dict literal of analyzer_config_left / analyzer_config_right.
AnalyzerConfig(name, channel, threshold) ==
    [name |-> name,
     analyzer_type |-> "cyclic_timed_events",
     time_reference_device |-> ANALYZER_REFERENCE,
     learning_rate |-> 5,
     initial_phase_durations |-> <<400, 600>>,
     events |-> << [name |-> "heel_strike", previous |-> "toe_off",
                    start_when |-> <<Condition(channel - 1, ">=", threshold)>>],
                   [name |-> "toe_off", previous |-> "heel_strike",
                    start_when |-> <<Condition(channel - 1, "<", threshold)>>] >>]

\* The trigger (channel, value) of every event of a descriptor, in order.
Triggers(config) ==
    [i \in 1..Len(config.events) |->
        << config.events[i].start_when[1].channel,
           config.events[i].start_when[1].value >>]

(************************** OSC control messages ***************************)
\* Typed OSC arguments: an int, a float (in tenths) and a non-numeric string.
IntArg(n) == [t |-> "int", v |-> n]
FloatArg(tenths) == [t |-> "float", v |-> tenths]
StrArg == [t |-> "str", v |-> 0]
\* What a sender puts on each address: two integers, two floats (or an
\* integer), channel indices; and text where a number is expected.
ChannelArgs == {IntArg(3), IntArg(6), StrArg}
ThresholdArgs == {FloatArg(25), IntArg(4), StrArg}
SensorArgs == {IntArg(1), IntArg(2), StrArg}

\* The argument lists a control message carries here: none, one or two.
ArgLists(S) ==
    {<<>>} \cup {<<a>> : a \in S} \cup {<<a, b>> : a \in S, b \in S}

\* Python's int(): identity on int, truncation on float, ValueError on text.
int_ok(a) == a.t \in {"int", "float"}
int_of(a) == IF a.t = "int" THEN a.v ELSE a.v \div 10
\* Python's float(): the same number, in tenths; ValueError on text.
float_ok(a) == a.t \in {"int", "float"}
float_of(a) == IF a.t = "int" THEN Tenths(a.v) ELSE a.v

(******************************** state ************************************)
VARIABLES
    mainPc,                   \* where main() is
    mainStep,                 \* index into StartupSteps
    sockets,                  \* connect_and_handshake's local list
    SOCKETS,                  \* the global list (<<>> is [] and False)
    sockState,                \* per socket id: "unopened", "open", "closed"
    started,                  \* threads main() has started
    oscPc,                    \* where the inbound OSC server thread is
    resendStep,               \* index into ResendSteps
    stage,                    \* per thread: stage of the call in progress
    ret,                      \* per thread: the call that has just returned
    ANALYZER_LEFT_CHANNEL,
    ANALYZER_RIGHT_CHANNEL,
    ANALYZER_LEFT_THRESHOLD,
    ANALYZER_RIGHT_THRESHOLD,
    analyzer_config_left,
    analyzer_config_right,
    CURRENT_SENSORS,
    osc_lock,                 \* "free" or the thread holding it
    oscIn,                    \* history: control messages dispatched
    nResends,                 \* history: resend sequences begun
    wire,                     \* history: operations on the TCP sockets since
                              \* the resend sequence in hand began (since
                              \* start-up before the first)
    rx,                       \* per stream: bytes the peer has sent that the
                              \* worker has not yet received
    workerPc,                 \* per stream worker: "recv", "frames",
                              \* "entries" or "closed"
    buffer,                   \* per stream worker: its local buffer
    expected_length,          \* per stream worker: its local expected_length
    sent_timestamps,          \* listen_to_live_data's local set
    todo,                     \* listen_to_live_data: entries of the frame in
                              \* hand still to be looked at
    sentFrames,               \* history, per stream: bodies the peer sent
    emitted,                  \* history, per stream: every raw_data cut out
    osc_out,                  \* history: send_osc_message calls
    torn,                     \* history, per stream: a read has ended
                              \* inside a frame
    sendPc,                   \* per thread that takes osc_lock: "out" of
                              \* the with-block, at "with", or "inside"
    sendArg,                  \* per stream worker: the message of the
                              \* send_osc_message call in progress
    response_in,              \* a buffer handed to interpret_response
    response_out,             \* what interpret_response returned for it
    loop_sensors,             \* listen_to_live_data: the list object its
                              \* `for channel in CURRENT_SENSORS` iterates
    loop_index                \* and the iterator's position in it (0: no
                              \* loop in progress)

scalarVars == << ANALYZER_LEFT_CHANNEL, ANALYZER_RIGHT_CHANNEL,
                 ANALYZER_LEFT_THRESHOLD, ANALYZER_RIGHT_THRESHOLD >>
configVars == << analyzer_config_left, analyzer_config_right >>
ctlVars == << mainPc, mainStep, sockets, SOCKETS, sockState, started, oscPc,
              resendStep, stage, ret, scalarVars, configVars, osc_lock, oscIn,
              nResends, wire >>

streamVars == << rx, workerPc, buffer, expected_length, sent_timestamps, todo,
                 sentFrames, emitted, osc_out, torn, sendPc, sendArg,
                 response_in, response_out, loop_sensors, loop_index >>

vars == << ctlVars, CURRENT_SENSORS, streamVars >>

Threads == {"main", "osc"}
\* The stream workers, by the name main() starts them under.
Workers == {"data", "analyses"}
\* expected_length = None
None == -1

\* The threads that take osc_lock.
Senders == Workers \cup {"osc"}
\* No send_osc_message call is in progress.
NoMessage ==
    [thr |-> "", address |-> <<>>, value |-> 0, values |-> <<>>,
     timestamp |-> 0, entry |-> <<0, 0>>]

\* The stream workers' locals as they are when the threads start.
StreamIdle ==
    /\ rx = [w \in Workers |-> <<>>]
    /\ workerPc = [w \in Workers |-> "recv"]
    /\ buffer = [w \in Workers |-> <<>>]
    /\ expected_length = [w \in Workers |-> None]
    /\ sent_timestamps = {}
    /\ todo = <<>>
    /\ sentFrames = [w \in Workers |-> <<>>]
    /\ emitted = [w \in Workers |-> <<>>]
    /\ osc_out = <<>>
    /\ torn = [w \in Workers |-> FALSE]
    /\ sendPc = [t \in Senders |-> "out"]
    /\ sendArg = [w \in Workers |-> NoMessage]
    /\ loop_sensors = <<>>
    /\ loop_index = 0
SocketIds == 0..(Len(EMG_PORTS) - 1)
NoRet == [fn |-> "none", raised |-> FALSE, response |-> <<>>, result |-> FALSE]

\* interpret_response has not been called.
NotParsed == [pending |-> TRUE]
CodecIdle ==
    /\ response_in = <<>>
    /\ response_out = NotParsed

\* The program's own state as main() is entered.
InitProgram ==
    /\ mainPc = "connect"
    /\ mainStep = 1
    /\ sockets = <<>>
    /\ SOCKETS = <<>>
    /\ sockState = [s \in SocketIds |-> "unopened"]
    /\ started = {}
    /\ oscPc = "off"
    /\ resendStep = 1
    /\ stage = [t \in Threads |-> "idle"]
    /\ ret = [t \in Threads |-> NoRet]
    /\ ANALYZER_LEFT_CHANNEL = INIT_LEFT_CHANNEL
    /\ ANALYZER_RIGHT_CHANNEL = INIT_RIGHT_CHANNEL
    /\ ANALYZER_LEFT_THRESHOLD = Tenths(INIT_LEFT_THRESHOLD)
    /\ ANALYZER_RIGHT_THRESHOLD = Tenths(INIT_RIGHT_THRESHOLD)
    /\ analyzer_config_left =
         AnalyzerConfig("foot_cycle_left", INIT_LEFT_CHANNEL, Tenths(INIT_LEFT_THRESHOLD))
    /\ analyzer_config_right =
         AnalyzerConfig("foot_cycle_right", INIT_RIGHT_CHANNEL, Tenths(INIT_RIGHT_THRESHOLD))
    /\ CURRENT_SENSORS = <<>>
    /\ osc_lock = "free"
    /\ oscIn = <<>>
    /\ nResends = 0
    /\ wire = <<>>
    /\ StreamIdle

Init == InitProgram /\ CodecIdle


(***************************** call sites **********************************)
\* One step of main()'s start-up or of send_analyzer_config(): a command
\* round trip, an extra-data round trip, or a thread start.  sock and
\* response_sock are the indices into SOCKETS that the call site passes.
CommandStep(command) ==
    [op |-> "send_command", command |-> command, sock |-> 0,
     response_sock |-> 0, extra |-> "", thread |-> ""]
ExtraStep(sock, response_sock, extra) ==
    [op |-> "send_extra_data", command |-> 0, sock |-> sock,
     response_sock |-> response_sock, extra |-> extra, thread |-> ""]
StartStep(thread) ==
    [op |-> "start", command |-> 0, sock |-> 0, response_sock |-> 0,
     extra |-> "", thread |-> thread]

\* Mutant: the inbound OSC server is started before the analyzer is set up.
StartupSteps_OscEarly ==
    << CommandStep(CONNECT_DELSYS_EMG),
       StartStep("data"),
       StartStep("osc"),
       CommandStep(ADD_ANALYZER),
       ExtraStep(1, 0, "config"),
       StartStep("analyses") >>

\* Mutant: the analyses worker is started before the analyzer is set up.
StartupSteps_AnalysesEarly ==
    << CommandStep(CONNECT_DELSYS_EMG),
       StartStep("data"),
       StartStep("analyses"),
       CommandStep(ADD_ANALYZER),
       ExtraStep(1, 0, "config"),
       StartStep("osc") >>

\* main(), after connect_and_handshake
StartupSteps ==
    << CommandStep(CONNECT_DELSYS_EMG),
       StartStep("data"),
       CommandStep(ADD_ANALYZER),
       ExtraStep(1, 0, "config"),
       StartStep("analyses"),
       StartStep("osc") >>

\* Mutant: the pushes wait for their answer on the socket they were sent on.
ResendSteps_AnswerOnSendSocket ==
    << CommandStep(REMOVE_ANALYZER),
       ExtraStep(1, 1, "name"),
       CommandStep(ADD_ANALYZER),
       ExtraStep(1, 1, "config") >>

\* Mutant: the analyzer is added before the old one is removed.
ResendSteps_AddFirst ==
    << CommandStep(ADD_ANALYZER),
       ExtraStep(1, 0, "name"),
       CommandStep(REMOVE_ANALYZER),
       ExtraStep(1, 0, "config") >>

\* send_analyzer_config(), after update_analyzer_config()
ResendSteps ==
    << CommandStep(REMOVE_ANALYZER),
       ExtraStep(1, 0, "name"),
       CommandStep(ADD_ANALYZER),
       ExtraStep(1, 0, "config") >>

CurStep(t) == IF t = "main" THEN StartupSteps[mainStep] ELSE ResendSteps[resendStep]

\* The process lives until main() returns or dies: the workers are daemons.
Alive == mainPc \notin {"done", "crashed"}

InCall(t) ==
    /\ Alive
    /\ IF t = "main" THEN mainPc = "startup" ELSE oscPc = "resend"
    /\ CurStep(t).op \in {"send_command", "send_extra_data"}

CloseAll(state, ids) ==
    [s \in SocketIds |-> IF s \in ids THEN "closed" ELSE state[s]]

Range(s) == {s[i] : i \in DOMAIN s}

(****************************** wire log ***********************************)
\* json.dumps(extra_data) is kept as what it serialises: the top-level keys,
\* the analyzer name and the trigger (channel, value) pairs.
SentCommand(t, sock, command) ==
    [thr |-> t, op |-> "send", sock |-> sock, kind |-> "command",
     bytes |-> to_packet(command), keys |-> {}, analyzer |-> "", triggers |-> <<>>]
SentExtra(t, sock, extra) ==
    [thr |-> t, op |-> "send", sock |-> sock, kind |-> "extra",
     bytes |-> Pack(VERSION, 4),
     keys |-> IF extra = "name" THEN {"analyzer"} ELSE DOMAIN analyzer_config_left,
     analyzer |-> analyzer_config_left.name,
     triggers |-> IF extra = "name" THEN <<>> ELSE Triggers(analyzer_config_left)]
Received(t, sock, kind) ==
    [thr |-> t, op |-> "recv", sock |-> sock, kind |-> kind,
     bytes |-> <<>>, keys |-> {}, analyzer |-> "", triggers |-> <<>>]
StepKind(step) == IF step.op = "send_command" THEN "command" ELSE "extra"

(************************ connect_and_handshake ****************************)
\* socket.create_connection succeeds for the next port
ConnectOk ==
    /\ mainPc = "connect"
    /\ Len(sockets) < Len(EMG_PORTS)
    /\ sockets' = Append(sockets, Len(sockets))
    /\ sockState' = [sockState EXCEPT ![Len(sockets)] = "open"]
    /\ mainPc' = IF Len(sockets') = Len(EMG_PORTS) THEN "handshake" ELSE "connect"
    /\ stage' = [stage EXCEPT !["main"] =
                    IF Len(sockets') = Len(EMG_PORTS) THEN "call" ELSE "idle"]
    /\ UNCHANGED << mainStep, SOCKETS, started, oscPc, resendStep, ret,
                    scalarVars, configVars, osc_lock,
                    oscIn, nResends, wire, CURRENT_SENSORS, streamVars >>

\* Mutant: the sockets opened so far are left open.
ConnectFail_NoClose ==
    /\ mainPc = "connect"
    /\ Len(sockets) < Len(EMG_PORTS)
    /\ SOCKETS' = <<>>
    /\ mainPc' = "done"
    /\ UNCHANGED << mainStep, sockets, sockState, started, oscPc, resendStep,
                    stage, ret, scalarVars, configVars, osc_lock, oscIn,
                    nResends, wire, CURRENT_SENSORS, streamVars >>

\* socket.create_connection raises for the next port: close what was opened,
\* return False; main() logs and returns.
ConnectFail ==
    /\ mainPc = "connect"
    /\ Len(sockets) < Len(EMG_PORTS)
    /\ sockState' = CloseAll(sockState, Range(sockets))
    /\ SOCKETS' = <<>>
    /\ mainPc' = "done"
    /\ UNCHANGED << mainStep, sockets, started, oscPc, resendStep, stage, ret,
                    scalarVars, configVars, osc_lock,
                    oscIn, nResends, wire, CURRENT_SENSORS, streamVars >>

\* sockets[0].sendall(handshake_message); an exception here is caught nowhere
HandshakeSend(ok) ==
    /\ mainPc = "handshake"
    /\ stage["main"] = "call"
    /\ IF ok
       THEN /\ wire' = Append(wire, SentCommand("main", At(sockets, 0), HANDSHAKE))
            /\ stage' = [stage EXCEPT !["main"] = "recv"]
            /\ mainPc' = mainPc
       ELSE /\ wire' = wire
            /\ stage' = [stage EXCEPT !["main"] = "idle"]
            /\ mainPc' = "crashed"
    /\ UNCHANGED << mainStep, sockets, SOCKETS, sockState, started, oscPc,
                    resendStep, ret, scalarVars, configVars, osc_lock, oscIn, nResends, CURRENT_SENSORS, streamVars >>

\* response = sockets[0].recv(16); only an interpretation error fails the
\* handshake (the status word is not looked at); on success main() stores the
\* list in SOCKETS.
HandshakeRecv(response) ==
    /\ mainPc = "handshake"
    /\ stage["main"] = "recv"
    /\ wire' = Append(wire, Received("main", At(sockets, 0), "command"))
    /\ IF "error" \in DOMAIN interpret_response(response)
       THEN /\ SOCKETS' = <<>>
            /\ mainPc' = "done"
            /\ stage' = [stage EXCEPT !["main"] = "idle"]
       ELSE /\ SOCKETS' = sockets
            /\ mainPc' = "startup"
            /\ stage' = [stage EXCEPT !["main"] = "call"]
    /\ UNCHANGED << mainStep, sockets, sockState, started, oscPc, resendStep,
                    ret, scalarVars, configVars, osc_lock,
                    oscIn, nResends, CURRENT_SENSORS, streamVars >>

\* recv raises in the handshake: caught nowhere
HandshakeRecvError ==
    /\ mainPc = "handshake"
    /\ stage["main"] = "recv"
    /\ mainPc' = "crashed"
    /\ stage' = [stage EXCEPT !["main"] = "idle"]
    /\ UNCHANGED << mainStep, sockets, SOCKETS, sockState, started, oscPc,
                    resendStep, ret, scalarVars, configVars, osc_lock, oscIn, nResends, wire,
                    CURRENT_SENSORS, streamVars >>

(******************* send_command / send_extra_data ************************)
\* Mutant: any non-zero status word counts as OK.
send_command_result_NonZero(response) ==
    LET parsed_response == interpret_response(response)
    IN  IF "error" \in DOMAIN parsed_response THEN FALSE
        ELSE parsed_response.status # 0

\* True iff the response interprets without error and its status is 1
send_command_result(response) ==
    LET parsed_response == interpret_response(response)
    IN  IF "error" \in DOMAIN parsed_response THEN FALSE
        ELSE parsed_response.status = 1

send_extra_data_result(response) ==
    LET parsed_response == interpret_response(response)
    IN  IF "error" \in DOMAIN parsed_response THEN FALSE
        ELSE parsed_response.status = 1

Returned(fn, raised, response) ==
    [fn |-> fn, raised |-> raised, response |-> response,
     result |-> IF raised THEN FALSE
                ELSE IF fn = "send_command" THEN send_command_result(response)
                ELSE send_extra_data_result(response)]

\* sock.sendall(...) of the call thread t is in goes through
CallSend(t) ==
    /\ InCall(t)
    /\ stage[t] = "call"
    /\ sockState[At(SOCKETS, CurStep(t).sock)] = "open"
    /\ wire' = Append(wire,
          IF CurStep(t).op = "send_command"
          THEN SentCommand(t, At(SOCKETS, CurStep(t).sock), CurStep(t).command)
          ELSE SentExtra(t, At(SOCKETS, CurStep(t).sock), CurStep(t).extra))
    /\ stage' = [stage EXCEPT ![t] = "recv"]
    /\ UNCHANGED << mainPc, mainStep, sockets, SOCKETS, sockState, started,
                    oscPc, resendStep, ret, scalarVars, configVars, osc_lock, oscIn, nResends, CURRENT_SENSORS, streamVars >>

\* sock.sendall(...) raises socket.error (always so on a closed socket):
\* the call logs and returns False
CallSendError(t) ==
    /\ InCall(t)
    /\ stage[t] = "call"
    /\ stage' = [stage EXCEPT ![t] = "ret"]
    /\ ret' = [ret EXCEPT ![t] = Returned(CurStep(t).op, TRUE, <<>>)]
    /\ UNCHANGED << mainPc, mainStep, sockets, SOCKETS, sockState, started,
                    oscPc, resendStep, scalarVars, configVars, osc_lock, oscIn, nResends, wire,
                    CURRENT_SENSORS, streamVars >>

\* response = <response socket>.recv(16), then the rest of the call's body
CallRecv(t, response) ==
    /\ InCall(t)
    /\ stage[t] = "recv"
    /\ sockState[At(SOCKETS, CurStep(t).response_sock)] = "open"
    /\ wire' = Append(wire, Received(t, At(SOCKETS, CurStep(t).response_sock),
                                     StepKind(CurStep(t))))
    /\ stage' = [stage EXCEPT ![t] = "ret"]
    /\ ret' = [ret EXCEPT ![t] = Returned(CurStep(t).op, FALSE, response)]
    /\ UNCHANGED << mainPc, mainStep, sockets, SOCKETS, sockState, started,
                    oscPc, resendStep, scalarVars, configVars, osc_lock, oscIn, nResends, CURRENT_SENSORS, streamVars >>

\* recv raises socket.error (always so on a closed socket)
CallRecvError(t) ==
    /\ InCall(t)
    /\ stage[t] = "recv"
    /\ stage' = [stage EXCEPT ![t] = "ret"]
    /\ ret' = [ret EXCEPT ![t] = Returned(CurStep(t).op, TRUE, <<>>)]
    /\ UNCHANGED << mainPc, mainStep, sockets, SOCKETS, sockState, started,
                    oscPc, resendStep, scalarVars, configVars, osc_lock, oscIn, nResends, wire,
                    CURRENT_SENSORS, streamVars >>


(********************************* main ************************************)
\* main() after a call returned: go on, or log and return on False
MainReturn ==
    /\ InCall("main")
    /\ stage["main"] = "ret"
    /\ ret' = [ret EXCEPT !["main"] = NoRet]
    /\ IF ret["main"].result
       THEN /\ mainStep' = mainStep + 1
            /\ mainPc' = mainPc
            /\ stage' = [stage EXCEPT !["main"] = "call"]
       ELSE /\ mainStep' = mainStep
            /\ mainPc' = "done"
            /\ stage' = [stage EXCEPT !["main"] = "idle"]
    /\ UNCHANGED << sockets, SOCKETS, sockState, started, oscPc, resendStep,
                    scalarVars, configVars, osc_lock, oscIn, nResends, wire,
                    CURRENT_SENSORS, streamVars >>

\* threading.Thread(target=..., daemon=True).start(); after the last one
\* main() blocks in threading.Event().wait()
MainStart ==
    /\ mainPc = "startup"
    /\ CurStep("main").op = "start"
    /\ started' = started \cup {CurStep("main").thread}
    /\ oscPc' = IF CurStep("main").thread = "osc" THEN "serve" ELSE oscPc
    /\ IF mainStep = Len(StartupSteps)
       THEN /\ mainPc' = "wait"
            /\ mainStep' = mainStep
            /\ stage' = [stage EXCEPT !["main"] = "idle"]
       ELSE /\ mainPc' = mainPc
            /\ mainStep' = mainStep + 1
            /\ stage' = [stage EXCEPT !["main"] = "call"]
    /\ UNCHANGED << sockets, SOCKETS, sockState, resendStep, ret, scalarVars,
                    configVars, osc_lock, oscIn, nResends, wire, CURRENT_SENSORS, streamVars >>

\* KeyboardInterrupt in the wait: the finally clause closes every socket
Interrupt ==
    /\ mainPc = "wait"
    /\ sockState' = CloseAll(sockState, Range(SOCKETS))
    /\ mainPc' = "done"
    /\ UNCHANGED << mainStep, sockets, SOCKETS, started, oscPc, resendStep,
                    stage, ret, scalarVars, configVars, osc_lock, oscIn, nResends, wire,
                    CURRENT_SENSORS, streamVars >>

(************************** inbound OSC server *****************************)
\* The dispatcher can hand the next datagram to a handler.
CanDispatch ==
    /\ Alive
    /\ oscPc = "serve"
    /\ Len(oscIn) < MaxUpdates

Dispatched(address, args) == Append(oscIn, [address |-> address, args |-> args])

\* the with-block of analyzer_update_channels: the index of the first
\* argument whose int(args[i]) raises IndexError or ValueError (0 if none)
channels_raise_at(args) ==
    IF Len(args) < 1 \/ ~int_ok(args[1]) THEN 1
    ELSE IF Len(args) < 2 \/ ~int_ok(args[2]) THEN 2
    ELSE 0

\* the with-block of analyzer_update_thresholds, with float(args[i])
thresholds_raise_at(args) ==
    IF Len(args) < 1 \/ ~float_ok(args[1]) THEN 1
    ELSE IF Len(args) < 2 \/ ~float_ok(args[2]) THEN 2
    ELSE 0

\* handler of /analyzer_channels up to its call of send_analyzer_config()
analyzer_update_channels(args) ==
    /\ CanDispatch
    /\ osc_lock = "free"
    /\ oscIn' = Dispatched("/analyzer_channels", args)
    /\ nResends' = nResends
    /\ ANALYZER_LEFT_CHANNEL' =
          IF channels_raise_at(args) = 1 THEN ANALYZER_LEFT_CHANNEL
          ELSE int_of(args[1])
    /\ ANALYZER_RIGHT_CHANNEL' =
          IF channels_raise_at(args) # 0 THEN ANALYZER_RIGHT_CHANNEL
          ELSE int_of(args[2])
    /\ oscPc' = IF channels_raise_at(args) = 0 THEN "send_analyzer_config" ELSE "serve"
    /\ UNCHANGED << mainPc, mainStep, sockets, SOCKETS, sockState, started,
                    resendStep, stage, ret, ANALYZER_LEFT_THRESHOLD,
                    ANALYZER_RIGHT_THRESHOLD, configVars, osc_lock, wire,
                    CURRENT_SENSORS, streamVars >>

\* handler of /analyzer_thresholds up to its call of send_analyzer_config()
analyzer_update_thresholds(args) ==
    /\ CanDispatch
    /\ osc_lock = "free"
    /\ oscIn' = Dispatched("/analyzer_thresholds", args)
    /\ nResends' = nResends
    /\ ANALYZER_LEFT_THRESHOLD' =
          IF thresholds_raise_at(args) = 1 THEN ANALYZER_LEFT_THRESHOLD
          ELSE float_of(args[1])
    /\ ANALYZER_RIGHT_THRESHOLD' =
          IF thresholds_raise_at(args) # 0 THEN ANALYZER_RIGHT_THRESHOLD
          ELSE float_of(args[2])
    /\ oscPc' = IF thresholds_raise_at(args) = 0 THEN "send_analyzer_config" ELSE "serve"
    /\ UNCHANGED << mainPc, mainStep, sockets, SOCKETS, sockState, started,
                    resendStep, stage, ret, ANALYZER_LEFT_CHANNEL,
                    ANALYZER_RIGHT_CHANNEL, configVars, osc_lock, wire,
                    CURRENT_SENSORS, streamVars >>

\* handler of /sensors: the list is built first and bound only if no
\* int(arg) raised
change_current_sensors(args) ==
    /\ CanDispatch
    /\ osc_lock = "free"
    /\ oscIn' = Dispatched("/sensors", args)
    /\ nResends' = nResends
    /\ CURRENT_SENSORS' =
          IF \A i \in DOMAIN args : int_ok(args[i])
          THEN [i \in DOMAIN args |-> int_of(args[i])]
          ELSE CURRENT_SENSORS
    /\ UNCHANGED << mainPc, mainStep, sockets, SOCKETS, sockState, started,
                    oscPc, resendStep, stage, ret, scalarVars, configVars,
                    osc_lock, wire, streamVars >>

\* Mutant: only the heel_strike event is rewritten.
update_analyzer_config_FirstEvent(config, channel, threshold) ==
    [config EXCEPT !.events[1].start_when[1].channel = channel - 1,
                   !.events[1].start_when[1].value = threshold]

\* Mutant: the events get the channel number, not the channel index.
update_analyzer_config_NoOffset(config, channel, threshold) ==
    [config EXCEPT !.events[1].start_when[1].channel = channel,
                   !.events[1].start_when[1].value = threshold,
                   !.events[2].start_when[1].channel = channel,
                   !.events[2].start_when[1].value = threshold]

\* the four assignments of update_analyzer_config()
update_analyzer_config(config, channel, threshold) ==
    [config EXCEPT !.events[1].start_when[1].channel = channel - 1,
                   !.events[1].start_when[1].value = threshold,
                   !.events[2].start_when[1].channel = channel - 1,
                   !.events[2].start_when[1].value = threshold]

\* send_analyzer_config() up to its first round trip: the SOCKETS guard,
\* then update_analyzer_config() under osc_lock
send_analyzer_config ==
    /\ Alive
    /\ oscPc = "send_analyzer_config"
    /\ osc_lock = "free"
    /\ IF SOCKETS = <<>> \/ Len(SOCKETS) < 2
       THEN /\ oscPc' = "serve"
            /\ UNCHANGED << resendStep, stage, analyzer_config_left, wire,
                            nResends >>
       ELSE /\ analyzer_config_left' =
                 update_analyzer_config(analyzer_config_left,
                                        ANALYZER_LEFT_CHANNEL,
                                        ANALYZER_LEFT_THRESHOLD)
            /\ oscPc' = "resend"
            /\ resendStep' = 1
            /\ stage' = [stage EXCEPT !["osc"] = "call"]
            /\ wire' = <<>>
            /\ nResends' = nResends + 1
    /\ UNCHANGED << mainPc, mainStep, sockets, SOCKETS, sockState, started,
                    ret, scalarVars, analyzer_config_right, osc_lock, oscIn,
                    CURRENT_SENSORS, streamVars >>

\* send_analyzer_config() after a round trip returned: the next step, or log
\* and return on False; after the fourth the handler logs and returns
ResendReturn ==
    /\ InCall("osc")
    /\ stage["osc"] = "ret"
    /\ ret' = [ret EXCEPT !["osc"] = NoRet]
    /\ IF ret["osc"].result /\ resendStep < Len(ResendSteps)
       THEN /\ resendStep' = resendStep + 1
            /\ oscPc' = oscPc
            /\ stage' = [stage EXCEPT !["osc"] = "call"]
       ELSE /\ resendStep' = resendStep
            /\ oscPc' = "serve"
            /\ stage' = [stage EXCEPT !["osc"] = "idle"]
    /\ UNCHANGED << mainPc, mainStep, sockets, SOCKETS, sockState, started,
                    scalarVars, configVars, osc_lock, oscIn, nResends, wire,
                    CURRENT_SENSORS, streamVars >>

(******************************* JSON text *********************************)
\* Frames the stream peers send in one run.
MaxFrames == 2

\* A JSON value: a number, a string (character codes), an array, or an object
\* (its members in order, each << key, value >>).
JNum(n) == [k |-> "num", n |-> n, s |-> <<>>, a |-> <<>>]
JStr(s) == [k |-> "str", n |-> 0, s |-> s, a |-> <<>>]
JArr(items) == [k |-> "arr", n |-> 0, s |-> <<>>, a |-> items]
JObj(members) == [k |-> "obj", n |-> 0, s |-> <<>>, a |-> members]

RECURSIVE Digits(_)
Digits(n) == IF n < 10 THEN <<48 + n>> ELSE Digits(n \div 10) \o <<48 + (n % 10)>>
\* str() of an int, as an f-string formats it
IntText(n) == IF n < 0 THEN <<45>> \o Digits(0 - n) ELSE Digits(n)

RECURSIVE Joined(_, _)
Joined(texts, sep) ==
    IF texts = <<>> THEN <<>>
    ELSE IF Len(texts) = 1 THEN texts[1]
    ELSE texts[1] \o sep \o Joined(Tail(texts), sep)

RECURSIVE JsonText(_)
\* The UTF-8 JSON text of a value, as the server writes it (no white space).
JsonText(v) ==
    CASE v.k = "num" -> IntText(v.n)
      [] v.k = "str" -> <<34>> \o v.s \o <<34>>
      [] v.k = "arr" ->
            <<91>> \o Joined([i \in DOMAIN v.a |-> JsonText(v.a[i])], <<44>>) \o <<93>>
      [] v.k = "obj" ->
            <<123>> \o Joined([i \in DOMAIN v.a |->
                                  <<34>> \o v.a[i][1] \o <<34, 58>> \o JsonText(v.a[i][2])],
                              <<44>>) \o <<125>>

\* "data", "g", "h", "x y", "z" and "w" as character codes
DataKey == <<100, 97, 116, 97>>
GKey == <<103>>
HKey == <<104>>
XYKey == <<120, 32, 121>>
ZKey == <<122>>
WKey == <<119>>

\* One entry [timestamp, [channel values]] and one named group of the data
\* stream's document.
Entry(timestamp, channels) ==
    JArr(<< JNum(timestamp), JArr([i \in DOMAIN channels |-> JNum(channels[i])]) >>)
Group(key, entries) ==
    << key, JObj(<< <<DataKey, JObj(<< <<DataKey, JArr(entries)>> >>)>> >>) >>

\* The documents the data peer sends: a group with two entries that share a
\* timestamp, and another group that repeats that timestamp and brings a new
\* one.
DataDocs ==
    << JObj(<< Group(GKey, <<Entry(1, <<5, 6>>), Entry(1, <<7, 8>>)>>) >>),
       JObj(<< Group(HKey, <<Entry(1, <<9>>), Entry(2, <<3>>)>>) >>) >>

\* The documents the analyses peer sends: {"data": {name: analysis}} with an
\* analysis of the expected form [n, [...]], and one with an analysis whose
\* second item is text and an analysis of three items.
AnalysesDocs ==
    << JObj(<< <<DataKey, JObj(<< <<XYKey, JArr(<<JNum(1), JArr(<<JNum(2), JNum(3)>>)>>)>> >>)>> >>),
       JObj(<< <<DataKey, JObj(<< <<ZKey, JArr(<<JNum(1), JStr(ZKey)>>)>>,
                                  <<WKey, JArr(<<JNum(1), JArr(<<JNum(4)>>), JNum(5)>>)>> >>)>> >>) >>

Docs(w) == IF w = "data" THEN DataDocs ELSE AnalysesDocs

\* Bodies that are no document: text that is not JSON ("{]") and a byte that
\* is not UTF-8.
NotJson == <<123, 93>>
NotUtf8 == <<255>>

\* The bodies a peer may put in a frame: the documents, one body that does
\* not decode, and the empty body of a frame of length 0.
Bodies(w) ==
    {JsonText(Docs(w)[i]) : i \in DOMAIN Docs(w)} \cup
    (IF w = "data" THEN {NotUtf8} ELSE {NotJson}) \cup {<<>>}

\* A frame on the wire: 16 header bytes (version, timestamp, body length at
\* bytes 12..15) and the body.
StreamFrame(body) == Pack(VERSION, 4) \o Pack(300, 8) \o Pack(Len(body), 4) \o body

\* raw_data.decode('utf-8') raises UnicodeDecodeError
decode_raises(raw_data) == \E i \in DOMAIN raw_data : raw_data[i] >= 128

\* json.loads(): the documents whose text is raw_data; none is JSONDecodeError
json_loads(w, raw_data) ==
    {i \in DOMAIN Docs(w) : JsonText(Docs(w)[i]) = raw_data}

\* value[key] of a decoded object
Item(object, key) ==
    object.a[CHOOSE i \in DOMAIN object.a : object.a[i][1] = key][2]

\* Python's list[i]: from the end for negative i, IndexError outside
index_ok(list, i) == i < Len(list) /\ i >= 0 - Len(list)
index(list, i) == IF i >= 0 THEN list[i + 1] ELSE list[Len(list) + i + 1]

(***************************** stream workers ******************************)
\* The socket main() hands to each worker: SOCKETS[2] and SOCKETS[3].
Sock(w) == At(SOCKETS, IF w = "data" THEN 2 ELSE 3)

\* What a stream worker's step leaves alone, the socket states apart.
quietVars == << mainPc, mainStep, sockets, SOCKETS, started, oscPc, resendStep,
                stage, ret, scalarVars, configVars, osc_lock, oscIn, nResends,
                wire, CURRENT_SENSORS, sendPc, sendArg, response_in,
                response_out, loop_sensors, loop_index >>

\* Mutant: the length is read from the first four header bytes.
parse_data_length_FromStart(data) == Unpack(SubSeq(data, 1, 4))

\* struct.unpack('<I', data[12:16])[0]; a length of 2^31 or more is held as
\* 2^31 - 1, which no buffer here reaches either
parse_data_length(data) ==
    IF data[16] >= 128 THEN 2147483647 ELSE Unpack(SubSeq(data, 13, 16))

\* while expected_length and len(buffer) >= expected_length
full_packet(length, buf) == length # None /\ length # 0 /\ Len(buf) >= length

RECURSIVE WireLength(_)
\* The bytes a sequence of bodies takes on the wire, headers included.
WireLength(bodies) ==
    IF bodies = <<>> THEN 0
    ELSE Len(StreamFrame(Head(bodies))) + WireLength(Tail(bodies))

\* A read that leaves `left` bytes unread ends inside a frame: what has been
\* read of stream w is not a whole number of the frames sent.
InsideFrame(w, left) ==
    \A k \in 0..Len(sentFrames[w]) :
        WireLength(sentFrames[w]) - left # WireLength(SubSeq(sentFrames[w], 1, k))

\* Nothing has been sent on the other stream: in one run one stream carries
\* traffic, the other worker waits in recv on an idle connection or has ended
\* on its peer closing at once.
OthersIdle(w) ==
    \A v \in Workers \ {w} :
        sentFrames[v] = <<>> /\ workerPc[v] \in {"recv", "closed"}

\* The peer of stream w writes one more frame.
PeerSend(w, body) ==
    /\ Alive
    /\ sockState[Sock(w)] = "open"
    /\ Len(sentFrames[w]) < MaxFrames
    /\ OthersIdle(w)
    /\ rx' = [rx EXCEPT ![w] = @ \o StreamFrame(body)]
    /\ sentFrames' = [sentFrames EXCEPT ![w] = Append(@, body)]
    /\ UNCHANGED << quietVars, sockState, workerPc, buffer, expected_length,
                    sent_timestamps, todo, emitted, osc_out, torn >>

\* data = sock.recv(4096) returns the next n bytes; buffer.extend(data); the
\* header is parsed if none is pending and 16 bytes are there; then the
\* while condition is looked at.
Recv(w) ==
    /\ Alive
    /\ w \in started
    /\ workerPc[w] = "recv"
    /\ sockState[Sock(w)] = "open"
    /\ \E n \in 1..Len(rx[w]) :
       /\ n <= 4096
       /\ LET data == SubSeq(rx[w], 1, n)
              extended == buffer[w] \o data
              header == expected_length[w] = None /\ Len(extended) >= 16
              length == IF header THEN parse_data_length(SubSeq(extended, 1, 16))
                        ELSE expected_length[w]
              rest == IF header THEN SubSeq(extended, 17, Len(extended)) ELSE extended
          IN  /\ rx' = [rx EXCEPT ![w] = SubSeq(@, n + 1, Len(@))]
              /\ buffer' = [buffer EXCEPT ![w] = rest]
              /\ expected_length' = [expected_length EXCEPT ![w] = length]
              /\ workerPc' = [workerPc EXCEPT ![w] =
                                 IF full_packet(length, rest) THEN "frames" ELSE "recv"]
              /\ torn' = [torn EXCEPT ![w] = @ \/ InsideFrame(w, Len(rx[w]) - n)]
    /\ UNCHANGED << quietVars, sockState, sent_timestamps, todo, sentFrames,
                    emitted, osc_out >>

\* Mutant: a worker that ends closes every socket of the program.
Break_ClosesAll(w) ==
    /\ workerPc' = [workerPc EXCEPT ![w] = "closed"]
    /\ sockState' = [s \in SocketIds |-> "closed"]

\* break, then sock.close()
Break(w) ==
    /\ workerPc' = [workerPc EXCEPT ![w] = "closed"]
    /\ sockState' = [sockState EXCEPT ![Sock(w)] = "closed"]

\* recv returns b'' (the peer has closed and nothing is left to read)
RecvEof(w) ==
    /\ Alive
    /\ w \in started
    /\ OthersIdle(w)
    /\ workerPc[w] = "recv"
    /\ sockState[Sock(w)] = "open"
    /\ rx[w] = <<>>
    /\ Break(w)
    /\ UNCHANGED << quietVars, rx, buffer, expected_length, sent_timestamps,
                    todo, sentFrames, emitted, osc_out, torn >>

\* recv raises (the connection is reset): except Exception
RecvError(w) ==
    /\ Alive
    /\ w \in started
    /\ OthersIdle(w)
    /\ workerPc[w] = "recv"
    /\ sockState[Sock(w)] = "open"
    /\ rx[w] # <<>>
    /\ Break(w)
    /\ UNCHANGED << quietVars, rx, buffer, expected_length, sent_timestamps,
                    todo, sentFrames, emitted, osc_out, torn >>

\* for key in decoded_data.keys(): for entry in decoded_data[key]['data']['data']
AllEntries(decoded_data) ==
    Joined([i \in DOMAIN decoded_data.a |->
               Item(Item(decoded_data.a[i][2], DataKey), DataKey).a], <<>>)

\* f'/sensor_{channel}'
SensorAddress(channel) == <<47, 115, 101, 110, 115, 111, 114, 95>> \o IntText(channel)
\* f'/{key.replace(" ", "_")}'
AnalysisAddress(key) ==
    <<47>> \o [i \in DOMAIN key |-> IF key[i] = 32 THEN 95 ELSE key[i]]

Numbers(list) == [i \in DOMAIN list |-> list[i].n]

\* the analyses worker's loop over decoded_data["data"].items(): a message
\* for every analysis that is a list of at least two items, the second a list
AnalysesMessages(decoded_data) ==
    IF \A i \in DOMAIN decoded_data.a : decoded_data.a[i][1] # DataKey
    THEN <<>>
    ELSE LET items == Item(decoded_data, DataKey).a
             good == SelectSeq(items, LAMBDA m :
                        /\ m[2].k = "arr"
                        /\ Len(m[2].a) >= 2
                        /\ m[2].a[2].k = "arr")
         IN  [i \in DOMAIN good |->
                [thr |-> "analyses", address |-> AnalysisAddress(good[i][1]),
                 value |-> 0, values |-> Numbers(good[i][2].a[2].a),
                 timestamp |-> 0, entry |-> <<0, 0>>]]

\* One turn of the while loop: cut raw_data out of the buffer, decode it, and
\* (data) line up its entries or (analyses) send its messages.
NextFrame(w) ==
    /\ Alive
    /\ workerPc[w] = "frames"
    /\ osc_lock = "free"
    /\ LET raw_data == SubSeq(buffer[w], 1, expected_length[w])
           rest == SubSeq(buffer[w], expected_length[w] + 1, Len(buffer[w]))
           found == json_loads(w, raw_data)
           decoded_data == Docs(w)[CHOOSE i \in found : TRUE]
       IN  /\ emitted' = [emitted EXCEPT ![w] = Append(@, raw_data)]
           /\ expected_length' = [expected_length EXCEPT ![w] = None]
           /\ IF decode_raises(raw_data)
              THEN /\ Break(w)
                   /\ buffer' = [buffer EXCEPT ![w] = rest]
                   /\ UNCHANGED << todo, osc_out >>
              ELSE IF found = {}
              THEN /\ buffer' = [buffer EXCEPT ![w] = <<>>]
                   /\ workerPc' = [workerPc EXCEPT ![w] = "recv"]
                   /\ UNCHANGED << sockState, todo, osc_out >>
              ELSE /\ buffer' = [buffer EXCEPT ![w] = rest]
                   /\ sockState' = sockState
                   /\ IF w = "data"
                      THEN /\ todo' = AllEntries(decoded_data)
                           /\ osc_out' = osc_out
                           /\ workerPc' = [workerPc EXCEPT ![w] =
                                 IF todo' = <<>> THEN "recv" ELSE "entries"]
                      ELSE /\ todo' = todo
                           /\ osc_out' = osc_out \o AnalysesMessages(decoded_data)
                           /\ workerPc' = [workerPc EXCEPT ![w] = "recv"]
    /\ UNCHANGED << quietVars, rx, sent_timestamps, sentFrames, torn >>

\* Mutant: every entry counts as new.
fresh_Always(timestamp, sent) == TRUE

\* timestamp not in sent_timestamps
fresh(timestamp, sent) == timestamp \notin sent

\* The data worker looks at the next entry of the frame in hand: a new
\* timestamp is recorded and one message goes out per selected channel the
\* entry has; an IndexError ends the worker.
DataEntry ==
    /\ Alive
    /\ workerPc["data"] = "entries"
    /\ osc_lock = "free"
    /\ LET entry == Head(todo)
           timestamp == entry.a[1].n
           channels == Numbers(entry.a[2].a)
           selected == SelectSeq(CURRENT_SENSORS, LAMBDA c : c <= Len(channels))
           bad == {i \in DOMAIN selected : ~index_ok(channels, selected[i] - 1)}
           upto == IF bad = {} THEN Len(selected)
                   ELSE (CHOOSE m \in bad : \A x \in bad : m <= x) - 1
           messages ==
               [i \in 1..upto |->
                   [thr |-> "data", address |-> SensorAddress(selected[i]),
                    value |-> index(channels, selected[i] - 1) * DATA_MULTIPLIER,
                    values |-> <<>>, timestamp |-> timestamp,
                    entry |-> <<Len(emitted["data"]), Len(todo)>>]]
           done == IF Tail(todo) = <<>> THEN "recv" ELSE "entries"
       IN  IF fresh(timestamp, sent_timestamps)
           THEN /\ sent_timestamps' = sent_timestamps \cup {timestamp}
                /\ osc_out' = osc_out \o messages
                /\ todo' = Tail(todo)
                /\ IF bad = {}
                   THEN /\ workerPc' = [workerPc EXCEPT !["data"] = done]
                        /\ sockState' = sockState
                   ELSE Break("data")
           ELSE /\ todo' = Tail(todo)
                /\ workerPc' = [workerPc EXCEPT !["data"] = done]
                /\ UNCHANGED << sent_timestamps, osc_out, sockState >>
    /\ UNCHANGED << quietVars, rx, buffer, expected_length, sentFrames, emitted,
                    torn >>

(***************************** telemetry send ******************************)
MaxSends == 3

\* The send_osc_message calls the stream workers make here.
TelemetryCalls(w) ==
    IF w = "data"
    THEN {[thr |-> "data", address |-> SensorAddress(c),
           value |-> v * DATA_MULTIPLIER, values |-> <<>>, timestamp |-> 0,
           entry |-> <<0, 0>>] : c \in Range(CURRENT_SENSORS), v \in {5}}
    ELSE UNION {Range(AnalysesMessages(AnalysesDocs[i])) : i \in DOMAIN AnalysesDocs}

\* The send_osc_message calls begun so far.
SendsBegun == Len(osc_out) + Cardinality({w \in Workers : sendPc[w] # "out"})

\* What a step of the telemetry send leaves alone.
sendQuietVars == << mainPc, mainStep, sockets, SOCKETS, sockState, started,
                    oscPc, resendStep, stage, ret, scalarVars, configVars,
                    nResends, wire, rx, workerPc, buffer, expected_length,
                    sent_timestamps, todo, sentFrames, emitted, torn,
                    response_in, response_out, loop_sensors, loop_index >>

\* a stream worker calls send_osc_message(address, value) and arrives at
\* `with osc_lock:`
send_osc_message(w, m) ==
    /\ Alive
    /\ w \in started
    /\ workerPc[w] # "closed"
    /\ sendPc[w] = "out"
    /\ SendsBegun < MaxSends
    /\ sendPc' = [sendPc EXCEPT ![w] = "with"]
    /\ sendArg' = [sendArg EXCEPT ![w] = m]
    /\ UNCHANGED << sendQuietVars, osc_lock, oscIn, osc_out, CURRENT_SENSORS >>

\* the OSC thread's handler of /sensors arrives at `with osc_lock:`
sensors_with ==
    /\ CanDispatch
    /\ sendPc["osc"] = "out"
    /\ sendPc' = [sendPc EXCEPT !["osc"] = "with"]
    /\ UNCHANGED << sendQuietVars, osc_lock, oscIn, osc_out, CURRENT_SENSORS,
                    sendArg >>

\* Mutant: the with-block is entered whether or not the lock is held.
lock_acquire_NoWait(t) ==
    /\ Alive
    /\ sendPc[t] = "with"
    /\ osc_lock' = t
    /\ sendPc' = [sendPc EXCEPT ![t] = "inside"]
    /\ UNCHANGED << sendQuietVars, oscIn, osc_out, CURRENT_SENSORS, sendArg >>

\* `with osc_lock:` is entered: threading.Lock.acquire() returns once the
\* lock is free
lock_acquire(t) ==
    /\ Alive
    /\ sendPc[t] = "with"
    /\ osc_lock = "free"
    /\ osc_lock' = t
    /\ sendPc' = [sendPc EXCEPT ![t] = "inside"]
    /\ UNCHANGED << sendQuietVars, oscIn, osc_out, CURRENT_SENSORS, sendArg >>

\* osc_client.send_message(address, value), and the with-block is left
send_message(w) ==
    /\ Alive
    /\ sendPc[w] = "inside"
    /\ osc_out' = Append(osc_out, sendArg[w])
    /\ sendArg' = [sendArg EXCEPT ![w] = NoMessage]
    /\ sendPc' = [sendPc EXCEPT ![w] = "out"]
    /\ osc_lock' = "free"
    /\ UNCHANGED << sendQuietVars, oscIn, CURRENT_SENSORS >>

\* the with-block of change_current_sensors, and the with-block is left
sensors_body(args) ==
    /\ Alive
    /\ sendPc["osc"] = "inside"
    /\ oscIn' = Dispatched("/sensors", args)
    /\ CURRENT_SENSORS' =
          IF \A i \in DOMAIN args : int_ok(args[i])
          THEN [i \in DOMAIN args |-> int_of(args[i])]
          ELSE CURRENT_SENSORS
    /\ sendPc' = [sendPc EXCEPT !["osc"] = "out"]
    /\ osc_lock' = "free"
    /\ UNCHANGED << sendQuietVars, osc_out, sendArg >>

(***************************** the channel loop ****************************)
\* What a step of the data worker's loops leaves alone.
loopQuietVars == << mainPc, mainStep, sockets, SOCKETS, sockState, started,
                    oscPc, resendStep, stage, ret, scalarVars, configVars,
                    nResends, wire, rx, buffer, expected_length, sentFrames,
                    emitted, torn, response_in, response_out, osc_lock, oscIn,
                    osc_out, CURRENT_SENSORS >>

\* Mutant: the loop reads the global afresh at every turn.
loop_list_Global(snapshot, global) == global

\* `for channel in CURRENT_SENSORS` evaluates the global once and iterates
\* the list object it got, whatever the name is bound to afterwards.
loop_list(snapshot, global) == snapshot

\* The data worker takes the next entry: `if timestamp not in
\* sent_timestamps`, the timestamp is added and the for statement gets its
\* list; an entry with a known timestamp is passed over.
entry_begin ==
    /\ Alive
    /\ workerPc["data"] = "entries"
    /\ todo # <<>>
    /\ LET timestamp == Head(todo).a[1].n
       IN  IF fresh(timestamp, sent_timestamps)
           THEN /\ sent_timestamps' = sent_timestamps \cup {timestamp}
                /\ loop_sensors' = CURRENT_SENSORS
                /\ loop_index' = 1
                /\ workerPc' = [workerPc EXCEPT !["data"] = "channels"]
                /\ todo' = todo
           ELSE /\ todo' = Tail(todo)
                /\ workerPc' = [workerPc EXCEPT !["data"] =
                                   IF Tail(todo) = <<>> THEN "recv" ELSE "entries"]
                /\ UNCHANGED << sent_timestamps, loop_sensors, loop_index >>
    /\ UNCHANGED << loopQuietVars, sendPc, sendArg >>

\* One turn of the for loop: the next channel of the list; if channel <=
\* len(channels) the worker calls send_osc_message and arrives at its
\* with-block. The loop ends with the list.
entry_channel ==
    /\ Alive
    /\ workerPc["data"] = "channels"
    /\ sendPc["data"] = "out"
    /\ LET entry == Head(todo)
           channels == Numbers(entry.a[2].a)
           list == loop_list(loop_sensors, CURRENT_SENSORS)
       IN  IF loop_index > Len(list)
           THEN /\ todo' = Tail(todo)
                /\ loop_sensors' = <<>>
                /\ loop_index' = 0
                /\ workerPc' = [workerPc EXCEPT !["data"] =
                                   IF Tail(todo) = <<>> THEN "recv" ELSE "entries"]
                /\ UNCHANGED << sockState, sendPc, sendArg >>
           ELSE LET channel == list[loop_index]
                IN  /\ loop_index' = loop_index + 1
                    /\ loop_sensors' = loop_sensors
                    /\ todo' = todo
                    /\ IF channel > Len(channels)
                       THEN UNCHANGED << workerPc, sockState, sendPc, sendArg >>
                       ELSE IF ~index_ok(channels, channel - 1)
                       THEN Break("data") /\ UNCHANGED << sendPc, sendArg >>
                       ELSE /\ sendPc' = [sendPc EXCEPT !["data"] = "with"]
                            /\ sendArg' = [sendArg EXCEPT !["data"] =
                                  [thr |-> "data",
                                   address |-> SensorAddress(channel),
                                   value |-> index(channels, channel - 1) * DATA_MULTIPLIER,
                                   values |-> <<>>,
                                   timestamp |-> entry.a[1].n,
                                   entry |-> <<Len(emitted["data"]), Len(todo)>>]]
                            /\ UNCHANGED << workerPc, sockState >>
    /\ UNCHANGED << mainPc, mainStep, sockets, SOCKETS, started, oscPc,
                    resendStep, stage, ret, scalarVars, configVars, nResends,
                    wire, rx, buffer, expected_length, sentFrames, emitted,
                    torn, response_in, response_out, osc_lock, oscIn, osc_out,
                    CURRENT_SENSORS, sent_timestamps >>

(***************************** handlers and the lock ***********************)
\* What a lock step of the OSC thread leaves alone.
lockQuietVars == << mainPc, mainStep, sockets, SOCKETS, sockState, started, ret,
                    analyzer_config_right, CURRENT_SENSORS, rx, workerPc,
                    buffer, expected_length, sent_timestamps, todo, sentFrames,
                    emitted, osc_out, torn, sendArg, response_in, response_out,
                    loop_sensors, loop_index >>

\* The handlers that end in send_analyzer_config().
Handlers == {"analyzer_update_channels", "analyzer_update_thresholds"}

\* The argument lists the handlers are given here: none (int(args[0]) raises
\* IndexError inside the with-block) and one pair that is accepted.
LockArgs == {<<>>, <<IntArg(3), IntArg(4)>>}

\* The answers of the server here: OK and NOK.
LockResponses == {Response(VERSION, 300, 1), Response(VERSION, 300, 0)}

\* a handler is dispatched and arrives at its `with osc_lock:`
handler_with(h) ==
    /\ CanDispatch
    /\ sendPc["osc"] = "out"
    /\ oscPc' = h
    /\ sendPc' = [sendPc EXCEPT !["osc"] = "with"]
    /\ UNCHANGED << lockQuietVars, scalarVars, analyzer_config_left, osc_lock,
                    oscIn, nResends, wire, resendStep, stage >>

\* the with-block of analyzer_update_channels, and the with-block is left
channels_body(args) ==
    /\ Alive
    /\ oscPc = "analyzer_update_channels"
    /\ sendPc["osc"] = "inside"
    /\ oscIn' = Dispatched("/analyzer_channels", args)
    /\ ANALYZER_LEFT_CHANNEL' =
          IF channels_raise_at(args) = 1 THEN ANALYZER_LEFT_CHANNEL
          ELSE int_of(args[1])
    /\ ANALYZER_RIGHT_CHANNEL' =
          IF channels_raise_at(args) # 0 THEN ANALYZER_RIGHT_CHANNEL
          ELSE int_of(args[2])
    /\ oscPc' = IF channels_raise_at(args) = 0 THEN "send_analyzer_config" ELSE "serve"
    /\ sendPc' = [sendPc EXCEPT !["osc"] = "out"]
    /\ osc_lock' = "free"
    /\ UNCHANGED << lockQuietVars, ANALYZER_LEFT_THRESHOLD,
                    ANALYZER_RIGHT_THRESHOLD, analyzer_config_left, nResends,
                    wire, resendStep, stage >>

\* the with-block of analyzer_update_thresholds, and the with-block is left
thresholds_body(args) ==
    /\ Alive
    /\ oscPc = "analyzer_update_thresholds"
    /\ sendPc["osc"] = "inside"
    /\ oscIn' = Dispatched("/analyzer_thresholds", args)
    /\ ANALYZER_LEFT_THRESHOLD' =
          IF thresholds_raise_at(args) = 1 THEN ANALYZER_LEFT_THRESHOLD
          ELSE float_of(args[1])
    /\ ANALYZER_RIGHT_THRESHOLD' =
          IF thresholds_raise_at(args) # 0 THEN ANALYZER_RIGHT_THRESHOLD
          ELSE float_of(args[2])
    /\ oscPc' = IF thresholds_raise_at(args) = 0 THEN "send_analyzer_config" ELSE "serve"
    /\ sendPc' = [sendPc EXCEPT !["osc"] = "out"]
    /\ osc_lock' = "free"
    /\ UNCHANGED << lockQuietVars, ANALYZER_LEFT_CHANNEL,
                    ANALYZER_RIGHT_CHANNEL, analyzer_config_left, nResends,
                    wire, resendStep, stage >>

\* send_analyzer_config(): the SOCKETS guard, then update_analyzer_config()
\* arrives at its `with osc_lock:`
update_config_with ==
    /\ Alive
    /\ oscPc = "send_analyzer_config"
    /\ sendPc["osc"] = "out"
    /\ IF SOCKETS = <<>> \/ Len(SOCKETS) < 2
       THEN oscPc' = "serve" /\ sendPc' = sendPc
       ELSE /\ oscPc' = "update_analyzer_config"
            /\ sendPc' = [sendPc EXCEPT !["osc"] = "with"]
    /\ UNCHANGED << lockQuietVars, scalarVars, analyzer_config_left, osc_lock,
                    oscIn, nResends, wire, resendStep, stage >>

\* Mutant: the first round trip begins with the lock still held.
update_config_body_KeepsLock ==
    /\ Alive
    /\ oscPc = "update_analyzer_config"
    /\ sendPc["osc"] = "inside"
    /\ analyzer_config_left' =
          update_analyzer_config(analyzer_config_left, ANALYZER_LEFT_CHANNEL,
                                 ANALYZER_LEFT_THRESHOLD)
    /\ oscPc' = "resend"
    /\ resendStep' = 1
    /\ stage' = [stage EXCEPT !["osc"] = "call"]
    /\ wire' = <<>>
    /\ nResends' = nResends + 1
    /\ sendPc' = [sendPc EXCEPT !["osc"] = "out"]
    /\ osc_lock' = osc_lock
    /\ UNCHANGED << lockQuietVars, scalarVars, oscIn >>

\* the with-block of update_analyzer_config, the with-block is left, and
\* send_analyzer_config() goes on to its first round trip
update_config_body ==
    /\ Alive
    /\ oscPc = "update_analyzer_config"
    /\ sendPc["osc"] = "inside"
    /\ analyzer_config_left' =
          update_analyzer_config(analyzer_config_left, ANALYZER_LEFT_CHANNEL,
                                 ANALYZER_LEFT_THRESHOLD)
    /\ oscPc' = "resend"
    /\ resendStep' = 1
    /\ stage' = [stage EXCEPT !["osc"] = "call"]
    /\ wire' = <<>>
    /\ nResends' = nResends + 1
    /\ sendPc' = [sendPc EXCEPT !["osc"] = "out"]
    /\ osc_lock' = "free"
    /\ UNCHANGED << lockQuietVars, scalarVars, oscIn >>

(***************************** response codec ******************************)
MaxExtra == 1

\* The fields a response buffer is built from here: the supported version
\* and others, some differing from it in a high byte only.
CodecVersions == {0, VERSION, 2, 257, 16777217}
CodecTimestamps == {0, 300, 65536, 2147483647}
CodecStatuses == {0, 1, 257, 2147483647}

\* b cut or padded with zero bytes to n bytes
Resized(b, n) ==
    IF n <= Len(b) THEN SubSeq(b, 1, n)
    ELSE b \o [i \in 1..(n - Len(b)) |-> 0]

\* The buffers handed to interpret_response: of every length from 0 to past
\* 16, with and without the supported version.
CodecBuffers ==
    { Resized(Response(v, t, c), n) :
        v \in CodecVersions, t \in CodecTimestamps, c \in CodecStatuses,
        n \in 0..(16 + MaxExtra) }

\* parsed_response = interpret_response(response)
Interpret ==
    /\ response_out = NotParsed
    /\ response_out' = interpret_response(response_in)
    /\ UNCHANGED << ctlVars, CURRENT_SENSORS, rx, workerPc, buffer,
                    expected_length, sent_timestamps, todo, sentFrames,
                    emitted, osc_out, torn, sendPc, sendArg, response_in,
                    loop_sensors, loop_index >>

(***************************** specification *******************************)
Next ==
    \/ ConnectOk
    \/ ConnectFail
    \/ \E ok \in BOOLEAN : HandshakeSend(ok)
    \/ \E response \in ServerResponses : HandshakeRecv(response)
    \/ HandshakeRecvError
    \/ \E t \in Threads : CallSend(t)
    \/ \E t \in Threads : CallSendError(t)
    \/ \E t \in Threads, response \in ServerResponses : CallRecv(t, response)
    \/ \E t \in Threads : CallRecvError(t)
    \/ MainReturn
    \/ MainStart
    \/ Interrupt
    \/ \E args \in ArgLists(ChannelArgs) : analyzer_update_channels(args)
    \/ \E args \in ArgLists(ThresholdArgs) : analyzer_update_thresholds(args)
    \/ \E args \in ArgLists(SensorArgs) : change_current_sensors(args)
    \/ send_analyzer_config
    \/ ResendReturn

Spec == Init /\ [][Next]_vars


\* The data plane starts where start-up has left the program and one
\* /sensors message has selected channels 1 and 2.
InitStarted ==
    /\ mainPc = "wait"
    /\ mainStep = Len(StartupSteps)
    /\ sockets = [i \in 1..Len(EMG_PORTS) |-> i - 1]
    /\ SOCKETS = sockets
    /\ sockState = [s \in SocketIds |-> "open"]
    /\ started = {"data", "analyses", "osc"}
    /\ oscPc = "serve"
    /\ resendStep = 1
    /\ stage = [t \in Threads |-> "idle"]
    /\ ret = [t \in Threads |-> NoRet]
    /\ ANALYZER_LEFT_CHANNEL = INIT_LEFT_CHANNEL
    /\ ANALYZER_RIGHT_CHANNEL = INIT_RIGHT_CHANNEL
    /\ ANALYZER_LEFT_THRESHOLD = Tenths(INIT_LEFT_THRESHOLD)
    /\ ANALYZER_RIGHT_THRESHOLD = Tenths(INIT_RIGHT_THRESHOLD)
    /\ analyzer_config_left =
         AnalyzerConfig("foot_cycle_left", INIT_LEFT_CHANNEL, Tenths(INIT_LEFT_THRESHOLD))
    /\ analyzer_config_right =
         AnalyzerConfig("foot_cycle_right", INIT_RIGHT_CHANNEL, Tenths(INIT_RIGHT_THRESHOLD))
    /\ CURRENT_SENSORS = <<1, 2>>
    /\ osc_lock = "free"
    /\ oscIn = << [address |-> "/sensors", args |-> <<IntArg(1), IntArg(2)>>] >>
    /\ nResends = 0
    /\ wire = << SentCommand("main", 0, HANDSHAKE),
                 Received("main", 0, "command"),
                 SentCommand("main", 0, CONNECT_DELSYS_EMG),
                 Received("main", 0, "command"),
                 SentCommand("main", 0, ADD_ANALYZER),
                 Received("main", 0, "command"),
                 SentExtra("main", 1, "config"),
                 Received("main", 0, "extra") >>

InitStream == InitStarted /\ StreamIdle /\ CodecIdle

NextStream ==
    \/ \E w \in Workers : \E body \in Bodies(w) : PeerSend(w, body)
    \/ \E w \in Workers : Recv(w)
    \/ \E w \in Workers : RecvEof(w)
    \/ \E w \in Workers : RecvError(w)
    \/ \E w \in Workers : NextFrame(w)
    \/ DataEntry

SpecStream == InitStream /\ [][NextStream]_vars

\* The telemetry send, step by step, with both stream workers and the OSC
\* thread at work after start-up.
NextSend ==
    \/ \E w \in Workers : \E m \in TelemetryCalls(w) : send_osc_message(w, m)
    \/ sensors_with
    \/ \E t \in Senders : lock_acquire(t)
    \/ \E w \in Workers : send_message(w)
    \/ \E args \in ArgLists(SensorArgs) : sensors_body(args)

SpecSend == InitStream /\ [][NextSend]_vars

\* The handlers of the channel and threshold updates with their resend
\* sequence, lock step by lock step, beside the stream workers' telemetry
\* sends.
NextLock ==
    \/ \E h \in Handlers : handler_with(h)
    \/ \E args \in LockArgs : channels_body(args)
    \/ \E args \in LockArgs : thresholds_body(args)
    \/ update_config_with
    \/ update_config_body
    \/ CallSend("osc")
    \/ CallSendError("osc")
    \/ \E response \in LockResponses : CallRecv("osc", response)
    \/ CallRecvError("osc")
    \/ ResendReturn
    \/ \E w \in Workers : \E m \in TelemetryCalls(w) : send_osc_message(w, m)
    \/ \E t \in Senders : lock_acquire(t)
    \/ \E w \in Workers : send_message(w)

SpecLock == InitStream /\ [][NextLock]_vars

\* The data worker has taken in a frame with the first document in one read
\* and is about to go through its entries.
InitSelect ==
    /\ InitStarted
    /\ CodecIdle
    /\ rx = [w \in Workers |-> <<>>]
    /\ workerPc = [w \in Workers |-> IF w = "data" THEN "entries" ELSE "recv"]
    /\ buffer = [w \in Workers |-> <<>>]
    /\ expected_length = [w \in Workers |-> None]
    /\ sent_timestamps = {}
    /\ todo = AllEntries(DataDocs[1])
    /\ sentFrames = [w \in Workers |->
                        IF w = "data" THEN <<JsonText(DataDocs[1])>> ELSE <<>>]
    /\ emitted = sentFrames
    /\ osc_out = <<>>
    /\ torn = [w \in Workers |-> FALSE]
    /\ sendPc = [t \in Senders |-> "out"]
    /\ sendArg = [w \in Workers |-> NoMessage]
    /\ loop_sensors = <<>>
    /\ loop_index = 0

\* The data worker's loops over entries and channels, send by send, beside
\* the handler of /sensors.
NextSelect ==
    \/ entry_begin
    \/ entry_channel
    \/ \E t \in Senders : lock_acquire(t)
    \/ send_message("data")
    \/ sensors_with
    \/ \E args \in ArgLists(SensorArgs) : sensors_body(args)

SpecSelect == InitSelect /\ [][NextSelect]_vars

\* interpret_response applied to one buffer out of CodecBuffers.
InitCodec ==
    /\ InitProgram
    /\ response_in \in CodecBuffers
    /\ response_out = NotParsed

NextCodec == Interpret

SpecCodec == InitCodec /\ [][NextCodec]_vars

(******************************* claims ************************************)
\* What the claims say of a control message, read off the message itself.
IsChannelPair(m) ==
    /\ m.address = "/analyzer_channels"
    /\ Len(m.args) = 2
    /\ \A i \in 1..2 : m.args[i].t = "int"
IsThresholdPair(m) ==
    /\ m.address = "/analyzer_thresholds"
    /\ Len(m.args) = 2
    /\ \A i \in 1..2 : m.args[i].t \in {"int", "float"}
\* Too few arguments, or one that is no number.
IsMalformed(m) ==
    \/ /\ m.address \in {"/analyzer_channels", "/analyzer_thresholds"}
       /\ (Len(m.args) < 2 \/ \E i \in 1..2 : m.args[i].t = "str")
    \/ /\ m.address = "/sensors"
       /\ \E i \in DOMAIN m.args : m.args[i].t = "str"
\* The number an argument stands for, in tenths.
InTenths(a) == IF a.t = "int" THEN 10 * a.v ELSE a.v
SendsOf(w) == SelectSeq(w, LAMBDA e : e.op = "send")
\* Both events of a descriptor trigger on this channel field and threshold.
BothTriggers(channel, threshold) == << <<channel, threshold>>, <<channel, threshold>> >>
ChannelFields(config) == {Triggers(config)[i][1] : i \in DOMAIN Triggers(config)}
ThresholdFields(config) == {Triggers(config)[i][2] : i \in DOMAIN Triggers(config)}

\* C2, as claimed: in every sendExtraData exchange the 16-byte response is
\* read from the second connection of the ChannelSet (Response).
C2_AnswerReadOnResponseConnection ==
    \A i \in DOMAIN wire :
        (wire[i].op = "recv" /\ wire[i].kind = "extra") => wire[i].sock = 1

\* C2, amended: in every sendExtraData exchange the payload is sent on the
\* second connection (Response) and the 16-byte response is then read from
\* the first connection (Command), never from any other channel.
C2_AnswerReadOnCommandConnection ==
    \A i \in DOMAIN wire :
        (wire[i].op = "recv" /\ wire[i].kind = "extra") =>
            /\ wire[i].sock = 0
            /\ i > 1
            /\ wire[i - 1].op = "send"
            /\ wire[i - 1].kind = "extra"
            /\ wire[i - 1].sock = 1

\* Both pushes of a resend sequence have been answered.
C2_Witness ==
    /\ nResends > 0
    /\ Cardinality({i \in DOMAIN wire : wire[i].op = "recv" /\ wire[i].kind = "extra"
                                        /\ wire[i].thr = "osc"}) = 2

InSequence(t) ==
    IF t = "main" THEN mainPc \in {"handshake", "startup"}
    ELSE oscPc \in {"send_analyzer_config", "resend"}

\* C3: round trips on the Command+Response pair never interleave: every read
\* of a response directly follows the send it answers, by the same thread; no
\* other operation comes between a send and its read; and the start-up
\* sequence and a resend sequence are never both in progress, the operations
\* since a sequence began being all its own.
C3_RoundTripsNeverInterleave ==
    /\ \A i \in DOMAIN wire :
          wire[i].op = "recv" =>
              /\ i > 1
              /\ wire[i - 1].op = "send"
              /\ wire[i - 1].thr = wire[i].thr
              /\ wire[i - 1].kind = wire[i].kind
    /\ \A i \in DOMAIN wire :
          (wire[i].op = "send" /\ i < Len(wire)) =>
              /\ wire[i + 1].op = "recv"
              /\ wire[i + 1].thr = wire[i].thr
    /\ \A i, j \in DOMAIN wire : wire[i].thr = wire[j].thr
    /\ ~(InSequence("main") /\ InSequence("osc"))
    /\ Cardinality({t \in Threads : stage[t] = "recv"}) <= 1

\* The second resend sequence waits for the answer to its third step.
C3_Witness ==
    /\ nResends = 2
    /\ oscPc = "resend"
    /\ resendStep = 3
    /\ stage["osc"] = "recv"

\* The message whose handler ran update_analyzer_config() last, if it is the
\* last one dispatched.
ResendOfLast ==
    /\ oscIn # <<>>
    /\ oscPc \in {"resend", "serve"}
    /\ IsChannelPair(Last(oscIn)) \/ IsThresholdPair(Last(oscIn))

C4_Order ==
    (nResends > 0) =>
        LET sends == SendsOf(wire)
        IN  /\ Len(sends) <= 4
            /\ Len(sends) >= 1 =>
                  /\ sends[1].kind = "command"
                  /\ sends[1].bytes = <<1, 0, 0, 0, 51, 0, 0, 0>>
            /\ Len(sends) >= 2 =>
                  /\ sends[2].kind = "extra"
                  /\ sends[2].keys = {"analyzer"}
                  /\ sends[2].analyzer = "foot_cycle_left"
            /\ Len(sends) >= 3 =>
                  /\ sends[3].kind = "command"
                  /\ sends[3].bytes = <<1, 0, 0, 0, 50, 0, 0, 0>>
            /\ Len(sends) >= 4 =>
                  /\ sends[4].kind = "extra"
                  /\ {"name", "analyzer_type", "events"} \subseteq sends[4].keys
                  /\ sends[4].analyzer = "foot_cycle_left"
                  /\ sends[4].triggers = Triggers(analyzer_config_left)

C4_KeepsUpdate ==
    /\ (ResendOfLast /\ IsChannelPair(Last(oscIn))) =>
          ChannelFields(analyzer_config_left) = {Last(oscIn).args[1].v - 1}
    /\ (ResendOfLast /\ IsThresholdPair(Last(oscIn))) =>
          ThresholdFields(analyzer_config_left) = {InTenths(Last(oscIn).args[1])}

C4_StepFailed ==
    /\ oscPc = "resend"
    /\ stage["osc"] = "ret"
    /\ ~ret["osc"].result

C4_Abort ==
    C4_StepFailed =>
        /\ wire' = wire
        /\ oscPc' \in {"resend", "serve"}
        /\ oscPc' = "resend" => (stage'["osc"] = "ret" /\ resendStep' = resendStep)
        /\ analyzer_config_left' = analyzer_config_left

\* C4: a resend sequence sends REMOVE_ANALYZER, the name-only push,
\* ADD_ANALYZER and the push of the full descriptor, in this order and no
\* more; after a step that returned failure nothing further is sent in the
\* sequence; and the local descriptor keeps the updated value throughout.
C4_ResendOrderAndAbort ==
    /\ [](C4_Order /\ C4_KeepsUpdate)
    /\ [][C4_Abort]_vars

\* The second step of a resend for /analyzer_channels 3 6 has failed; the
\* descriptor holds channel 2.
C4_Witness ==
    /\ C4_StepFailed
    /\ resendStep = 2
    /\ IsChannelPair(Last(oscIn))
    /\ Last(oscIn).args = <<IntArg(3), IntArg(6)>>
    /\ ChannelFields(analyzer_config_left) = {2}

\* C5: once the handler of a channel-pair update (left, right) is done, the
\* left descriptor's trigger channels are left-1 and the right descriptor's
\* right-1; once that of a threshold-pair update is done, the left
\* descriptor's thresholds are left and the right descriptor's right.
C5_BothDescriptorsUpdated ==
    /\ (ResendOfLast /\ IsChannelPair(Last(oscIn))) =>
          /\ ChannelFields(analyzer_config_left) = {Last(oscIn).args[1].v - 1}
          /\ ChannelFields(analyzer_config_right) = {Last(oscIn).args[2].v - 1}
    /\ (ResendOfLast /\ IsThresholdPair(Last(oscIn))) =>
          /\ ThresholdFields(analyzer_config_left) = {InTenths(Last(oscIn).args[1])}
          /\ ThresholdFields(analyzer_config_right) = {InTenths(Last(oscIn).args[2])}

\* The resend sequence in hand has had all four steps answered OK.
ResendCompleted ==
    /\ oscPc = "resend"
    /\ resendStep = 4
    /\ stage["osc"] = "ret"
    /\ ret["osc"].result

FourRoundTrips(w) ==
    /\ Len(w) = 8
    /\ \A i \in 1..8 : w[i].op = IF i % 2 = 1 THEN "send" ELSE "recv"
    /\ \A i \in 1..8 : w[i].thr = "osc"

NumPairUpdates ==
    Cardinality({i \in DOMAIN oscIn : IsChannelPair(oscIn[i]) \/ IsThresholdPair(oscIn[i])})

\* C6: every well-formed pair update begins exactly one resend sequence, which
\* with the server answering OK is exactly four round trips, its last push
\* carrying the descriptor as it then is; after a channel-pair update the
\* trigger channel is its left value minus 1 (the threshold still the initial
\* one), and after a threshold-pair update following it the trigger channel is
\* still that and the threshold is the threshold update's left value.
C6_OneResendPerUpdate ==
    /\ nResends = NumPairUpdates - (IF oscPc = "send_analyzer_config" THEN 1 ELSE 0)
    /\ ResendCompleted =>
          /\ FourRoundTrips(wire)
          /\ wire[7].triggers = Triggers(analyzer_config_left)
    /\ (ResendOfLast /\ Len(oscIn) = 1 /\ IsChannelPair(oscIn[1])) =>
          Triggers(analyzer_config_left) =
              BothTriggers(oscIn[1].args[1].v - 1, 10 * 5)
    /\ (ResendOfLast /\ Len(oscIn) = 2 /\ IsChannelPair(oscIn[1])
                     /\ IsThresholdPair(oscIn[2])) =>
          /\ nResends = 2
          /\ Triggers(analyzer_config_left) =
                BothTriggers(oscIn[1].args[1].v - 1, InTenths(oscIn[2].args[1]))

\* /analyzer_channels 3 6 then /analyzer_thresholds 2.5 4, both resends
\* answered OK: the last push carried channel 2 and threshold 2.5.
C6_Witness ==
    /\ ResendCompleted
    /\ Len(oscIn) = 2
    /\ oscIn[1] = [address |-> "/analyzer_channels", args |-> <<IntArg(3), IntArg(6)>>]
    /\ oscIn[2] = [address |-> "/analyzer_thresholds", args |-> <<FloatArg(25), IntArg(4)>>]
    /\ nResends = 2
    /\ wire[7].triggers = BothTriggers(2, 25)

\* C7: a control message with malformed arguments starts no resend sequence
\* and leaves the selection, the four scalars and both descriptors as they
\* were.
C7_MalformedLeavesStateUnchanged ==
    [][ (oscIn' # oscIn /\ IsMalformed(Last(oscIn'))) =>
            /\ oscPc' = "serve"
            /\ nResends' = nResends
            /\ UNCHANGED << scalarVars, configVars, CURRENT_SENSORS >> ]_vars

\* C8: the connections are opened in port order, and once connecting has
\* failed at any port no socket is open and no packet was ever sent.
ConnectFailed == mainPc = "done" /\ Len(sockets) < Len(EMG_PORTS)
C8_ConnectAllOrNothing ==
    /\ mainPc = "connect" =>
          \A s \in SocketIds : (sockState[s] = "open") = (s < Len(sockets))
    /\ ConnectFailed =>
          /\ \A s \in SocketIds : sockState[s] # "open"
          /\ wire = <<>>
          /\ SOCKETS = <<>>
          /\ started = {}

\* The third connection failed; the first two are closed.
C8_Witness ==
    /\ ConnectFailed
    /\ Len(sockets) = 2
    /\ sockState[0] = "closed"
    /\ sockState[1] = "closed"

SingleFrame(w) == Len(sentFrames[w]) = 1 /\ Len(sentFrames[w][1]) > 0

\* C1: when one frame with a non-empty body is delivered to a stream worker
\* in reads of any sizes, the worker cuts out nothing but that frame's body,
\* once, and has cut it out as soon as it has taken in the last byte.
C1_ChunkIndependence ==
    \A w \in Workers :
        SingleFrame(w) =>
            /\ emitted[w] \in {<<>>, sentFrames[w]}
            /\ (rx[w] = <<>> /\ workerPc[w] # "frames") => emitted[w] = sentFrames[w]

\* The data frame with the first document has come in over several reads, one
\* of them ending inside it, and has been emitted.
C1_Witness ==
    /\ sentFrames["data"] = <<JsonText(DataDocs[1])>>
    /\ torn["data"]
    /\ rx["data"] = <<>>
    /\ workerPc["data"] = "recv"
    /\ emitted["data"] = <<JsonText(DataDocs[1])>>

DataMessages == {i \in DOMAIN osc_out : osc_out[i].thr = "data"}

\* All telemetry for one timestamp comes from one entry, and its timestamp is
\* in the set.
C9_OncePerTimestamp ==
    /\ \A i \in DataMessages : osc_out[i].timestamp \in sent_timestamps
    /\ \A i \in DataMessages : \A j \in DataMessages :
          osc_out[i].timestamp = osc_out[j].timestamp
              => osc_out[i].entry = osc_out[j].entry

C9_SetOnlyGrows == sent_timestamps \subseteq sent_timestamps'

\* C9: over the data worker's life, across frames and groups, telemetry goes
\* out for a timestamp at most once (for the first entry that carries it),
\* and no timestamp ever leaves the set of those already emitted.
C9_Deduplication == []C9_OncePerTimestamp /\ [][C9_SetOnlyGrows]_vars

\* Both documents have been handled: of the two entries with timestamp 1 in
\* the first only [5, 6] went out, the second document's entry with timestamp
\* 1 (another group, another frame) went out not at all, its timestamp 2 did.
C9_Witness ==
    /\ emitted["data"] = <<JsonText(DataDocs[1]), JsonText(DataDocs[2])>>
    /\ workerPc["data"] = "recv"
    /\ sent_timestamps = {1, 2}
    /\ [i \in DOMAIN osc_out |-> osc_out[i].value] =
          <<5 * DATA_MULTIPLIER, 6 * DATA_MULTIPLIER, 3 * DATA_MULTIPLIER>>
    /\ [i \in DOMAIN osc_out |-> osc_out[i].timestamp] = <<1, 1, 2>>

\* raw_data is not the text of a document: it is not UTF-8, or it is not JSON.
Undecodable(w, raw_data) == decode_raises(raw_data) \/ json_loads(w, raw_data) = {}

\* Worker w cuts out a frame in this step, and its body is undecodable.
EmitsUndecodable(w) ==
    /\ emitted'[w] # emitted[w]
    /\ Undecodable(w, Last(emitted'[w]))

\* C11: a stream worker that cuts out a frame whose body does not decode as
\* JSON, invalid UTF-8 included, drops its whole buffer, awaits a header again
\* and keeps running with its socket open.
C11_UndecodableBodyKeepsWorker ==
    [][ \A w \in Workers :
           EmitsUndecodable(w) =>
               /\ buffer'[w] = <<>>
               /\ expected_length'[w] = None
               /\ workerPc'[w] # "closed"
               /\ sockState'[Sock(w)] = "open" ]_vars

\* What the analyses document is to give rise to: for each analysis that is a
\* sequence of exactly two items, the second a sequence, the address made of
\* its name and that second item.
ExpectedOfAnalyses(decoded_data) ==
    IF \A i \in DOMAIN decoded_data.a : decoded_data.a[i][1] # DataKey
    THEN <<>>
    ELSE LET items == Item(decoded_data, DataKey).a
             good == SelectSeq(items, LAMBDA m :
                        /\ m[2].k = "arr"
                        /\ Len(m[2].a) = 2
                        /\ m[2].a[2].k = "arr")
         IN  [i \in DOMAIN good |->
                << AnalysisAddress(good[i][1]), Numbers(good[i][2].a[2].a) >>]

ExpectedOfBody(raw_data) ==
    IF Undecodable("analyses", raw_data) THEN <<>>
    ELSE ExpectedOfAnalyses(
            AnalysesDocs[CHOOSE i \in json_loads("analyses", raw_data) : TRUE])

AnalysesSent ==
    LET sent == SelectSeq(osc_out, LAMBDA m : m.thr = "analyses")
    IN  [i \in DOMAIN sent |-> << sent[i].address, sent[i].values >>]

\* C12: the analyses worker has sent, for the frames it has cut out and in
\* their order, one message per analysis that is a two-item sequence with a
\* sequence second (to '/' + name, spaces as underscores, carrying that second
\* item), and nothing for an analysis of any other shape.
C12_AnalysesTelemetry ==
    AnalysesSent =
        Joined([i \in DOMAIN emitted["analyses"] |->
                   ExpectedOfBody(emitted["analyses"][i])], <<>>)

(*************************** claims: start-up ******************************)
\* The packets main() has sent so far, while no resend has begun.
StartupSends == SendsOf(wire)

\* The k-th packet sent has been answered.
Answered(k) == Len(wire) >= 2 * k /\ wire[2 * k].op = "recv"

C13_Order ==
    /\ nResends > 0 => started = {"data", "analyses", "osc"}
    /\ started # {} => SOCKETS = <<0, 1, 2, 3>>
    /\ "analyses" \in started => "data" \in started
    /\ "osc" \in started => "analyses" \in started
    /\ nResends = 0 =>
          /\ Len(StartupSends) <= 4
          /\ \A i \in DOMAIN wire : wire[i].thr = "main"
          /\ \A i \in DOMAIN wire : wire[i].op = IF i % 2 = 1 THEN "send" ELSE "recv"
          /\ Len(StartupSends) >= 1 =>
                /\ StartupSends[1].bytes = to_packet(HANDSHAKE)
                /\ \A s \in SocketIds : sockState[s] # "unopened"
          /\ Len(StartupSends) >= 2 =>
                /\ StartupSends[2].bytes = to_packet(CONNECT_DELSYS_EMG)
                /\ Answered(1)
                /\ SOCKETS = <<0, 1, 2, 3>>
          /\ "data" \in started => Answered(2)
          /\ Len(StartupSends) >= 3 =>
                /\ StartupSends[3].bytes = to_packet(ADD_ANALYZER)
                /\ "data" \in started
          /\ Len(StartupSends) >= 4 =>
                /\ StartupSends[4].kind = "extra"
                /\ StartupSends[4].analyzer = "foot_cycle_left"
                /\ Answered(3)
          /\ "analyses" \in started => Answered(4)

\* A call of main() has returned False.
C13_CallFailed == stage["main"] = "ret" /\ ~ret["main"].result

\* After a call that returned False main() is done, and from then on no
\* worker is started and nothing is sent.
C13_FailureStops ==
    /\ C13_CallFailed => mainPc' = "done"
    /\ (C13_CallFailed \/ (mainPc = "done" /\ "osc" \notin started)) =>
          (started' = started /\ wire' = wire)

\* A worker is started, or main() goes on to its next call, only when the
\* call before has returned True.
C13_OnlyAfterSuccess ==
    (mainPc = "startup" /\ mainStep' # mainStep /\ stage["main"] = "ret") =>
        ret["main"].result

\* C13: start-up runs in this order, each step only after the one before has
\* succeeded: the four connections and the handshake, CONNECT_DELSYS_EMG
\* answered, the data worker started, ADD_ANALYZER answered, the first
\* descriptor push answered, the analyses worker started, the inbound OSC
\* server started; after a failed command or push no later worker is started
\* and no later command is sent.
C13_StartupOrder ==
    /\ []C13_Order
    /\ [][C13_FailureStops /\ C13_OnlyAfterSuccess]_vars

\* Start-up is over: four round trips, all three workers started.
C13_Witness ==
    /\ mainPc = "wait"
    /\ nResends = 0
    /\ Len(wire) = 8
    /\ started = {"data", "analyses", "osc"}


(*************************** claims: shutdown ******************************)
\* C14: whenever main() has finished, through the interrupt or through an
\* abandoned start-up, every socket that was opened has been closed.
C14_ClosedWhenMainFinishes ==
    mainPc = "done" => \A s \in SocketIds : sockState[s] # "open"


(*************************** claims: worker failure ************************)
\* recv on w's socket returns b'' or raises, and the worker ends.
C15_RecvEnds(w) == workerPc[w] = "recv" /\ workerPc'[w] = "closed"

\* Only w's socket is closed; every other thread is where it was.
C15_Contained(w) ==
    /\ sockState' = [sockState EXCEPT ![Sock(w)] = "closed"]
    /\ \A v \in Workers \ {w} : workerPc'[v] = workerPc[v]
    /\ mainPc' = mainPc /\ oscPc' = oscPc /\ started' = started
    /\ Alive'

\* An ended worker stays ended: its socket stays closed and nothing more is
\* read from it.
C15_NeverRetried(w) ==
    workerPc[w] = "closed" =>
        /\ workerPc'[w] = "closed"
        /\ sockState'[Sock(w)] = "closed"
        /\ rx'[w] = rx[w]
        /\ emitted'[w] = emitted[w]

\* C15: a zero-length read or a receive failure on a stream socket ends only
\* the worker that owns the socket and closes only that socket; the other
\* stream worker, the OSC worker and main() keep running with their sockets
\* open, and the dead connection is never reopened or read again.
C15_FailureContainment ==
    [][ \A w \in Workers :
           /\ C15_RecvEnds(w) => C15_Contained(w)
           /\ C15_NeverRetried(w) ]_vars

\* The data worker has ended on a closed connection and the analyses worker
\* has since emitted a frame on its own open socket.
C15_Witness ==
    /\ workerPc["data"] = "closed"
    /\ sockState[Sock("data")] = "closed"
    /\ sockState[Sock("analyses")] = "open"
    /\ emitted["analyses"] # <<>>
    /\ mainPc = "wait"


(*************************** claims: telemetry send ************************)
\* The threads inside the shared client's with-block.
InsideSend == {t \in Senders : sendPc[t] = "inside"}

\* C16: no two threads are inside the shared UDP client's send at the same
\* time, and every message that goes out is sent by the thread that holds
\* osc_lock, from inside send_osc_message.
C16_SendsMutuallyExclusive ==
    /\ [](Cardinality(InsideSend) <= 1)
    /\ [](\A t \in InsideSend : osc_lock = t)
    /\ [][ osc_out' # osc_out =>
              \E w \in Workers :
                  /\ InsideSend = {w}
                  /\ osc_out' = Append(osc_out, sendArg[w]) ]_vars

\* One worker is inside the send while the other worker and the OSC thread
\* wait for the lock, after a message has gone out.
C16_Witness ==
    /\ sendPc["data"] = "inside"
    /\ sendPc["analyses"] = "with"
    /\ sendPc["osc"] = "with"
    /\ osc_out # <<>>


(*************************** claims: response codec ************************)
\* interpret_response has returned an error and no field of a response.
C17_Rejected ==
    /\ "error" \in DOMAIN response_out
    /\ DOMAIN response_out \cap {"protocol_version", "timestamp", "status"} = {}

\* interpret_response has returned the three fields, and encoding them
\* little-endian gives back the buffer.
C17_Decoded ==
    /\ "error" \notin DOMAIN response_out
    /\ {"protocol_version", "timestamp", "status"} \subseteq DOMAIN response_out
    /\ response_in = Pack(response_out.protocol_version, 4)
                       \o Pack(response_out.timestamp, 8)
                       \o Pack(response_out.status, 4)

\* C17: interpret_response rejects, with an error and no response value,
\* every buffer whose length is not 16 (the empty one included) and every
\* 16-byte buffer whose version field is not the supported version; for a
\* 16-byte buffer with the supported version it returns version, timestamp
\* and status exactly as encoded little-endian in the buffer.
C17_InterpretResponse ==
    response_out # NotParsed =>
        IF Len(response_in) # 16 \/ SubSeq(response_in, 1, 4) # Pack(VERSION, 4)
        THEN C17_Rejected
        ELSE C17_Decoded

\* A 16-byte buffer of the supported version with a status of more than one
\* byte has been decoded.
C17_Witness ==
    /\ response_out # NotParsed
    /\ Len(response_in) = 16
    /\ "status" \in DOMAIN response_out
    /\ response_out.status = 257
    /\ response_out.timestamp = 65536


(*************************** claims: reassembly ****************************)
\* Every frame the peer has sent on stream w has a body the worker decodes.
AllDecodable(w) ==
    \A i \in DOMAIN sentFrames[w] : ~Undecodable(w, sentFrames[w][i])

\* Every byte sent on stream w has been received and the worker is waiting
\* for more, or has ended.
AllReceived(w) == rx[w] = <<>> /\ workerPc[w] \in {"recv", "closed"}

\* C18: whatever the read boundaries, one read carrying several complete
\* frames included, the worker emits every valid frame once, in arrival
\* order, each unit being one frame's body; a frame whose bytes have all been
\* received is emitted without further bytes from the peer and before the
\* worker ends.
C18_MultiFrameReassembly ==
    \A w \in Workers :
        AllDecodable(w) =>
            /\ Len(emitted[w]) <= Len(sentFrames[w])
            /\ emitted[w] = SubSeq(sentFrames[w], 1, Len(emitted[w]))
            /\ AllReceived(w) => emitted[w] = sentFrames[w]


\* The worker holds a header's length and at least that many bytes.
BodyBuffered(w) ==
    expected_length[w] # None /\ Len(buffer[w]) >= expected_length[w]

\* C19: whatever length a header carries, 0 included, the worker does not
\* stay waiting for a body once that many bytes are buffered: back at recv it
\* has emitted the frame and is waiting for a header again.
C19_NeverStaysAwaitingBody ==
    \A w \in Workers : workerPc[w] = "recv" => ~BodyBuffered(w)


(*************************** claims: sensor telemetry **********************)
\* The messages the step has sent.
NewMessages == SubSeq(osc_out', Len(osc_out) + 1, Len(osc_out'))

\* C20: for an entry whose timestamp is new the data worker sends one message
\* per index of the current selection, to /sensor_{index}, carrying the
\* entry's channel value at index - 1 times the multiplier; the number of
\* messages is the number of selected indices.
C20_OneMessagePerSelectedChannel ==
    [][ sent_timestamps' # sent_timestamps =>
           LET channels == Numbers(Head(todo).a[2].a)
           IN  /\ Len(NewMessages) = Len(CURRENT_SENSORS)
               /\ \A i \in DOMAIN CURRENT_SENSORS :
                     /\ NewMessages[i].address = SensorAddress(CURRENT_SENSORS[i])
                     /\ NewMessages[i].value =
                           channels[CURRENT_SENSORS[i]] * DATA_MULTIPLIER ]_vars


(*************************** claims: lock discipline ***********************)
\* The OSC thread is in a round trip of the resend sequence.
InResend == oscPc = "resend"

\* A stream worker waits at `with osc_lock:`.
WaitingWorkers == {w \in Workers : sendPc[w] = "with"}

\* C21: no thread arrives at `with osc_lock:` while it holds the lock, and
\* the OSC thread does not hold the lock during a round trip of the resend
\* sequence; so while an answer of the server is outstanding a stream worker
\* that wants to send telemetry finds the lock free or held by the other
\* worker, which is inside its send.
C21_LockDiscipline ==
    /\ \A t \in Senders : sendPc[t] = "with" => osc_lock # t
    /\ \A t \in Senders : osc_lock = t => sendPc[t] = "inside"
    /\ InResend => (osc_lock # "osc" /\ sendPc["osc"] = "out")
    /\ (InResend /\ WaitingWorkers # {}) =>
          \/ osc_lock = "free"
          \/ \E v \in Workers \ WaitingWorkers : osc_lock = v

\* The OSC thread has sent REMOVE_ANALYZER and waits for the answer; a
\* message of the data worker has gone out and the analyses worker is inside
\* its send.
C21_Witness ==
    /\ InResend
    /\ stage["osc"] = "recv"
    /\ Len(wire) = 1
    /\ osc_out # <<>>
    /\ Last(osc_out).thr = "data"
    /\ sendPc["analyses"] = "inside"


(*************************** claims: selection snapshot ********************)
\* The values CURRENT_SENSORS has held: the empty list of the module and what
\* each accepted /sensors message has installed.
SelectionsHeld ==
    {<<>>} \cup
    { [k \in DOMAIN oscIn[i].args |-> int_of(oscIn[i].args[k])] :
        i \in {j \in DOMAIN oscIn :
                 /\ oscIn[j].address = "/sensors"
                 /\ \A k \in DOMAIN oscIn[j].args : int_ok(oscIn[j].args[k])} }

\* The entries telemetry has gone out for, and the entry behind such a tag.
EntriesSent == {osc_out[i].entry : i \in DOMAIN osc_out}
EntryOf(e) ==
    LET all == AllEntries(DataDocs[e[1]]) IN all[Len(all) - e[2] + 1]

\* (address, value) of the messages sent for entry e, in order.
SentFor(e) ==
    LET sent == SelectSeq(osc_out, LAMBDA m : m.entry = e)
    IN  [i \in DOMAIN sent |-> << sent[i].address, sent[i].value >>]

\* (address, value) of the messages selection S asks for on entry e.
AskedFor(S, e) ==
    LET channels == Numbers(EntryOf(e).a[2].a)
        within == SelectSeq(S, LAMBDA c : c >= 1 /\ c <= Len(channels))
    IN  [i \in DOMAIN within |->
            << SensorAddress(within[i]), channels[within[i]] * DATA_MULTIPLIER >>]

IsPrefix(a, b) == Len(a) <= Len(b) /\ a = SubSeq(b, 1, Len(a))

\* The entry the for loop is at, if any.
InLoop(e) ==
    /\ workerPc["data"] = "channels"
    /\ e = <<Len(emitted["data"]), Len(todo)>>

C22_OneSelectionPerEntry ==
    \A e \in EntriesSent :
        \E S \in SelectionsHeld :
            IF InLoop(e) THEN IsPrefix(SentFor(e), AskedFor(S, e))
            ELSE SentFor(e) = AskedFor(S, e)

\* A /sensors message is handled.
C22_SelectionUpdate ==
    /\ oscIn' # oscIn
    /\ Last(oscIn').address = "/sensors"

C22_UpdateTouchesSelectionOnly ==
    C22_SelectionUpdate =>
        /\ wire' = wire
        /\ UNCHANGED << scalarVars, configVars >>
        /\ loop_sensors' = loop_sensors
        /\ CURRENT_SENSORS' \in {CURRENT_SENSORS} \cup SelectionsHeld'

\* C22: the selection is replaced as a whole, so the messages sent for one
\* data entry all follow one value of the selection, the old one or the new
\* one, also when /sensors is handled while the entry's messages go out; a
\* selection update sends nothing on a TCP connection and leaves both
\* descriptors and the channel and threshold scalars as they are.
C22_SelectionSnapshot ==
    /\ []C22_OneSelectionPerEntry
    /\ [][C22_UpdateTouchesSelectionOnly]_vars

\* Both messages of an entry have gone out for the selection [1, 2] while
\* /sensors 2 1 was handled in the middle of the loop.
C22_Witness ==
    /\ workerPc["data"] = "channels"
    /\ loop_sensors = <<1, 2>>
    /\ loop_index = 3
    /\ CURRENT_SENSORS = <<2, 1>>
    /\ Len(osc_out) = 2


(*************************** claims: the pushed descriptor *****************)
\* A wire entry that carries a whole descriptor, not the analyzer's name only.
IsDescriptorPush(e) == e.op = "send" /\ e.kind = "extra" /\ "events" \in e.keys

\* Every descriptor on the wire has two events with one channel, one value.
C23_EventsAgree ==
    \A i \in DOMAIN wire :
        IsDescriptorPush(wire[i]) =>
            /\ Len(wire[i].triggers) = 2
            /\ wire[i].triggers[1] = wire[i].triggers[2]

\* The step puts a descriptor on the wire.
C23_Pushes == Len(wire') = Len(wire) + 1 /\ IsDescriptorPush(Last(wire'))

\* A descriptor is pushed by main() at start-up or as the fourth step of a
\* resend sequence, and carries the left channel minus 1 and the left
\* threshold the program holds.
C23_PushCarriesLeftScalars ==
    C23_Pushes =>
        /\ Last(wire').triggers =
              BothTriggers(ANALYZER_LEFT_CHANNEL - 1, ANALYZER_LEFT_THRESHOLD)
        /\ \/ Last(wire').thr = "main" /\ nResends = 0
           \/ Last(wire').thr = "osc" /\ resendStep = 4

====
